---- MODULE Spec2Model ----
(***************************************************************************)
(* A model of the readsb MCP server (src/readsb_mcp_server.py): the tool   *)
(* dispatcher handle_call_tool and the handlers behind it, with the        *)
(* feeder's three JSON documents (receiver.json, aircraft.json,            *)
(* stats.json) as the environment.                                         *)
(*                                                                         *)
(* Representation of Python values                                         *)
(*   dict        a record holding exactly the keys that are present, so    *)
(*               `k in d` is  k \in DOMAIN d  and {} is <<>>               *)
(*   list        a sequence                                                *)
(*   int         [int |-> n]                                               *)
(*   float       [float |-> "<repr>"], the literal as Python prints it     *)
(*   str         [str |-> <<c1, ..., cn>>], a sequence of characters       *)
(*   None        [none |-> TRUE]                                           *)
(* Computed distances are integers in thousandths of a nautical mile and   *)
(* computed bearings integers in thousandths of a degree.                  *)
(***************************************************************************)
EXTENDS Integers, Sequences, FiniteSets, TLC

\* Longest aircraft list the feeder serves in this model.
MaxAircraft == 3
\* The most calls handled at once.
MaxInFlight == 2

VARIABLES
  pc,             \* "idle": waiting for a call; "done": a call has been handled
  tool,           \* name passed to handle_call_tool (a method name for a direct call)
  args,           \* the call's arguments document
  receiver_json,  \* the feeder's receiver.json endpoint at the time of the call
  aircraft_json,  \* the feeder's aircraft.json endpoint at the time of the call
  stats_json,     \* the feeder's stats.json endpoint at the time of the call
  fetched,        \* the endpoints the call requested, in order
  result,         \* what the call returned: the return statement and its entries
  text,           \* the text of the response
  self,           \* the attributes of the ReadsbMCPServer object
  in_flight,      \* the calls being handled at once, each suspended at a request
  earlier,        \* how calls answered so far have ended
  config_file,    \* the Claude Desktop configuration file
  setup           \* the run of the configuration setup script

\* The variables of one call handled from request to response, and those of
\* several calls in flight.
calling ==
  <<pc, tool, args, receiver_json, aircraft_json, stats_json, fetched, result, text>>
serving == <<self, in_flight, earlier>>
installing == <<config_file, setup>>
vars == <<calling, serving, installing>>

----------------------------------------------------------------------------
(* Python values *)

PyInt(n) == [int |-> n]
PyFloat(s) == [float |-> s]
PyStr(s) == [str |-> s]
None == [none |-> TRUE]

IsInt(v) == "int" \in DOMAIN v
IsFloat(v) == "float" \in DOMAIN v
IsStr(v) == "str" \in DOMAIN v
IsNumber(v) == IsInt(v) \/ IsFloat(v)

\* The float literals of the model, in thousandths (rounded to nearest).
FloatMilli(s) ==
  CASE s = "0.0" -> 0
    [] s = "10.0" -> 10000
    [] s = "45.0" -> 45000
    [] s = "45.5" -> 45500
    [] s = "46.0" -> 46000
    [] s = "9.704295928443617" -> 9704
    [] s = "9.746109261186815" -> 9746
    [] s = "10.295704071556383" -> 10296
    [] s = "32.518312491034806" -> 32518
    [] s = "32.518" -> 32518
    [] s = "60.984" -> 60984
    [] s = "2701.821" -> 2701821
    [] s = "2.5" -> 2500

\* The value of a number, in thousandths.
Milli(v) == IF IsInt(v) THEN v.int * 1000 ELSE FloatMilli(v.float)

\* bool(v): None, 0, 0.0 and "" are false.
Truthy(v) ==
  /\ v # None
  /\ IsInt(v) => v.int # 0
  /\ IsFloat(v) => FloatMilli(v.float) # 0
  /\ IsStr(v) => v.str # <<>>

\* d.get(k, default)
Get(d, k, default) == IF k \in DOMAIN d THEN d[k] ELSE default

\* s[:n] for n >= 0
Take(s, n) == SubSeq(s, 1, IF n < Len(s) THEN n ELSE Len(s))

\* [f(x) for x in s]
Map(s, f(_)) == [i \in 1..Len(s) |-> f(s[i])]

\* x in lst
InList(x, lst) == \E i \in 1..Len(lst) : lst[i] = x

----------------------------------------------------------------------------
(* Strings *)

north == <<"n", "o", "r", "t", "h">>
south == <<"s", "o", "u", "t", "h">>
east == <<"e", "a", "s", "t">>
west == <<"w", "e", "s", "t">>
northeast == north \o east
northwest == north \o west
southeast == south \o east
southwest == south \o west

\* str.lower() and str.upper() on the characters of the model
LowerChar(c) ==
  CASE c = "A" -> "a" [] c = "B" -> "b" [] c = "E" -> "e" [] c = "K" -> "k"
    [] c = "L" -> "l" [] c = "S" -> "s" [] c = "T" -> "t" [] c = "U" -> "u"
    [] c = "P" -> "p" [] c = "Y" -> "y" [] c = "N" -> "n" [] OTHER -> c
UpperChar(c) ==
  CASE c = "a" -> "A" [] c = "b" -> "B" [] c = "c" -> "C" [] c = "d" -> "D"
    [] c = "e" -> "E" [] c = "f" -> "F" [] c = "k" -> "K" [] c = "l" -> "L"
    [] c = "x" -> "X"
    [] OTHER -> c
lower(s) == Map(s, LowerChar)
upper(s) == Map(s, UpperChar)

\* The character of a decimal digit.
Digit(d) == <<"0", "1", "2", "3", "4", "5", "6", "7", "8", "9">>[d + 1]

IsSpace(c) == c = " "

\* str.strip(): leading and trailing whitespace removed
RECURSIVE lstrip(_)
lstrip(s) == IF s # <<>> /\ IsSpace(Head(s)) THEN lstrip(Tail(s)) ELSE s
RECURSIVE rstrip(_)
rstrip(s) ==
  IF s # <<>> /\ IsSpace(s[Len(s)]) THEN rstrip(SubSeq(s, 1, Len(s) - 1)) ELSE s
strip(s) == rstrip(lstrip(s))

\* `sub in s` for strings
Contains(s, sub) ==
  \E i \in 0..(Len(s) - Len(sub)) : SubSeq(s, i + 1, i + Len(sub)) = sub

----------------------------------------------------------------------------
(* Great-circle geometry *)

(***************************************************************************)
(* _calculate_distance and _calculate_bearing evaluated in IEEE doubles    *)
(* (the haversine and atan2 formulas of the source) on the coordinates of  *)
(* the model.  Of the distance, nm is the nearest thousandth of a nautical *)
(* mile, whole the nautical miles and billionths the rest in billionths   *)
(* of a nautical mile; atan2 is degrees(atan2(y, x)) to the nearest        *)
(* thousandth of a degree.  The bearings 337.5, 350.0, 22.5, 180.0, 90.0   *)
(* and 0.0 and the two distances 32.518312491034806 are exact in doubles;  *)
(* for the observers and the aircraft positions the feeder serves,         *)
(* rounding preserves every order and equality among the values of one     *)
(* observer and the sector limits.  The table has every ordered pair of    *)
(* Points and every observer with every served position.                   *)
(***************************************************************************)
GeoTable ==
   {[lat1 |-> "45.0", lon1 |-> "10.0", lat2 |-> "45.5", lon2 |-> "9.704295928443617",
     nm |-> 32518, whole |-> 32, billionths |-> 518312491, atan2 |-> -22500],
    [lat1 |-> "45.0", lon1 |-> "10.0", lat2 |-> "46.0", lon2 |-> "9.746109261186815",
     nm |-> 60984, whole |-> 60, billionths |-> 983626217, atan2 |-> -10000],
    [lat1 |-> "45.0", lon1 |-> "10.0", lat2 |-> "45.5", lon2 |-> "10.295704071556383",
     nm |-> 32518, whole |-> 32, billionths |-> 518312491, atan2 |-> 22500],
    [lat1 |-> "45.0", lon1 |-> "10.0", lat2 |-> "0.0", lon2 |-> "10.0",
     nm |-> 2701821, whole |-> 2701, billionths |-> 820732968, atan2 |-> 180000],
    [lat1 |-> "45.0", lon1 |-> "10.0", lat2 |-> "45.7", lon2 |-> "10.0",
     nm |-> 42028, whole |-> 42, billionths |-> 28322513, atan2 |-> 0],
    [lat1 |-> "45.0", lon1 |-> "10.0", lat2 |-> "45.2", lon2 |-> "10.0",
     nm |-> 12008, whole |-> 12, billionths |-> 8092147, atan2 |-> 0],
    [lat1 |-> "45.0", lon1 |-> "10.0", lat2 |-> "46.1", lon2 |-> "10.0",
     nm |-> 66045, whole |-> 66, billionths |-> 44506806, atan2 |-> 0],
    [lat1 |-> "45.0", lon1 |-> "10.0", lat2 |-> "45.4", lon2 |-> "10.0",
     nm |-> 24016, whole |-> 24, billionths |-> 16184293, atan2 |-> 0],
    [lat1 |-> "45.0", lon1 |-> "10.0", lat2 |-> "45.9", lon2 |-> "10.0",
     nm |-> 54036, whole |-> 54, billionths |-> 36414659, atan2 |-> 0],
    [lat1 |-> "45.0", lon1 |-> "10.0", lat2 |-> "45.1", lon2 |-> "10.0",
     nm |-> 6004, whole |-> 6, billionths |-> 4046073, atan2 |-> 0],
    [lat1 |-> "45.0", lon1 |-> "10.0", lat2 |-> "46.2", lon2 |-> "10.0",
     nm |-> 72049, whole |-> 72, billionths |-> 48552879, atan2 |-> 0],
    [lat1 |-> "45.0", lon1 |-> "10.0", lat2 |-> "45.6", lon2 |-> "10.0",
     nm |-> 36024, whole |-> 36, billionths |-> 24276440, atan2 |-> 0],
    [lat1 |-> "45.0", lon1 |-> "10.0", lat2 |-> "45.3", lon2 |-> "10.0",
     nm |-> 18012, whole |-> 18, billionths |-> 12138220, atan2 |-> 0],
    [lat1 |-> "45.0", lon1 |-> "10.0", lat2 |-> "45.8", lon2 |-> "10.0",
     nm |-> 48032, whole |-> 48, billionths |-> 32368586, atan2 |-> 0],
    [lat1 |-> "45.0", lon1 |-> "10.0", lat2 |-> "46.3", lon2 |-> "10.0",
     nm |-> 78053, whole |-> 78, billionths |-> 52598952, atan2 |-> 0],
    [lat1 |-> "45.0", lon1 |-> "10.0", lat2 |-> "45.05", lon2 |-> "10.0",
     nm |-> 3002, whole |-> 3, billionths |-> 2023037, atan2 |-> 0],
    [lat1 |-> "0.0", lon1 |-> "0.0", lat2 |-> "45.5", lon2 |-> "9.704295928443617",
     nm |-> 2779886, whole |-> 2779, billionths |-> 885580980, atan2 |-> 9405],
    [lat1 |-> "0.0", lon1 |-> "0.0", lat2 |-> "46.0", lon2 |-> "9.746109261186815",
     nm |-> 2809489, whole |-> 2809, billionths |-> 489364677, atan2 |-> 9284],
    [lat1 |-> "0.0", lon1 |-> "0.0", lat2 |-> "45.5", lon2 |-> "10.295704071556383",
     nm |-> 2785858, whole |-> 2785, billionths |-> 858428900, atan2 |-> 9962],
    [lat1 |-> "0.0", lon1 |-> "0.0", lat2 |-> "0.0", lon2 |-> "10.0",
     nm |-> 600405, whole |-> 600, billionths |-> 404607326, atan2 |-> 90000],
    [lat1 |-> "0.0", lon1 |-> "0.0", lat2 |-> "45.7", lon2 |-> "10.0",
     nm |-> 2794488, whole |-> 2794, billionths |-> 487838459, atan2 |-> 9618],
    [lat1 |-> "0.0", lon1 |-> "0.0", lat2 |-> "45.2", lon2 |-> "10.0",
     nm |-> 2765346, whole |-> 2765, billionths |-> 346409230, atan2 |-> 9784],
    [lat1 |-> "0.0", lon1 |-> "0.0", lat2 |-> "46.1", lon2 |-> "10.0",
     nm |-> 2817811, whole |-> 2817, billionths |-> 811232993, atan2 |-> 9487],
    [lat1 |-> "0.0", lon1 |-> "0.0", lat2 |-> "45.4", lon2 |-> "10.0",
     nm |-> 2777001, whole |-> 2777, billionths |-> 1245907, atan2 |-> 9717],
    [lat1 |-> "0.0", lon1 |-> "0.0", lat2 |-> "45.9", lon2 |-> "10.0",
     nm |-> 2806148, whole |-> 2806, billionths |-> 148414191, atan2 |-> 9552],
    [lat1 |-> "0.0", lon1 |-> "0.0", lat2 |-> "45.1", lon2 |-> "10.0",
     nm |-> 2759520, whole |-> 2759, billionths |-> 519869983, atan2 |-> 9817],
    [lat1 |-> "0.0", lon1 |-> "0.0", lat2 |-> "46.2", lon2 |-> "10.0",
     nm |-> 2823643, whole |-> 2823, billionths |-> 643474367, atan2 |-> 9454],
    [lat1 |-> "0.0", lon1 |-> "0.0", lat2 |-> "45.6", lon2 |-> "10.0",
     nm |-> 2788658, whole |-> 2788, billionths |-> 658401033, atan2 |-> 9651],
    [lat1 |-> "0.0", lon1 |-> "0.0", lat2 |-> "45.3", lon2 |-> "10.0",
     nm |-> 2771174, whole |-> 2771, billionths |-> 173535836, atan2 |-> 9750],
    [lat1 |-> "0.0", lon1 |-> "0.0", lat2 |-> "45.8", lon2 |-> "10.0",
     nm |-> 2800318, whole |-> 2800, billionths |-> 317844091, atan2 |-> 9585],
    [lat1 |-> "0.0", lon1 |-> "0.0", lat2 |-> "46.3", lon2 |-> "10.0",
     nm |-> 2829476, whole |-> 2829, billionths |-> 476265552, atan2 |-> 9422],
    [lat1 |-> "0.0", lon1 |-> "0.0", lat2 |-> "45.05", lon2 |-> "10.0",
     nm |-> 2756607, whole |-> 2756, billionths |-> 606821844, atan2 |-> 9834],
    [lat1 |-> "0.0", lon1 |-> "10.0", lat2 |-> "45.5", lon2 |-> "9.704295928443617",
     nm |-> 2731886, whole |-> 2731, billionths |-> 885985044, atan2 |-> -291],
    [lat1 |-> "0.0", lon1 |-> "10.0", lat2 |-> "46.0", lon2 |-> "9.746109261186815",
     nm |-> 2761894, whole |-> 2761, billionths |-> 893808866, atan2 |-> -245],
    [lat1 |-> "0.0", lon1 |-> "10.0", lat2 |-> "45.5", lon2 |-> "10.295704071556383",
     nm |-> 2731886, whole |-> 2731, billionths |-> 885985044, atan2 |-> 291],
    [lat1 |-> "0.0", lon1 |-> "10.0", lat2 |-> "0.0", lon2 |-> "10.0",
     nm |-> 0, whole |-> 0, billionths |-> 0, atan2 |-> 0],
    [lat1 |-> "0.0", lon1 |-> "10.0", lat2 |-> "45.7", lon2 |-> "10.0",
     nm |-> 2743849, whole |-> 2743, billionths |-> 849055481, atan2 |-> 0],
    [lat1 |-> "0.0", lon1 |-> "10.0", lat2 |-> "45.2", lon2 |-> "10.0",
     nm |-> 2713829, whole |-> 2713, billionths |-> 828825114, atan2 |-> 0],
    [lat1 |-> "0.0", lon1 |-> "10.0", lat2 |-> "46.1", lon2 |-> "10.0",
     nm |-> 2767865, whole |-> 2767, billionths |-> 865239774, atan2 |-> 0],
    [lat1 |-> "0.0", lon1 |-> "10.0", lat2 |-> "45.4", lon2 |-> "10.0",
     nm |-> 2725837, whole |-> 2725, billionths |-> 836917261, atan2 |-> 0],
    [lat1 |-> "0.0", lon1 |-> "10.0", lat2 |-> "45.9", lon2 |-> "10.0",
     nm |-> 2755857, whole |-> 2755, billionths |-> 857147627, atan2 |-> 0],
    [lat1 |-> "0.0", lon1 |-> "10.0", lat2 |-> "45.1", lon2 |-> "10.0",
     nm |-> 2707825, whole |-> 2707, billionths |-> 824779041, atan2 |-> 0],
    [lat1 |-> "0.0", lon1 |-> "10.0", lat2 |-> "46.2", lon2 |-> "10.0",
     nm |-> 2773869, whole |-> 2773, billionths |-> 869285847, atan2 |-> 0],
    [lat1 |-> "0.0", lon1 |-> "10.0", lat2 |-> "45.6", lon2 |-> "10.0",
     nm |-> 2737845, whole |-> 2737, billionths |-> 845009407, atan2 |-> 0],
    [lat1 |-> "0.0", lon1 |-> "10.0", lat2 |-> "45.3", lon2 |-> "10.0",
     nm |-> 2719833, whole |-> 2719, billionths |-> 832871188, atan2 |-> 0],
    [lat1 |-> "0.0", lon1 |-> "10.0", lat2 |-> "45.8", lon2 |-> "10.0",
     nm |-> 2749853, whole |-> 2749, billionths |-> 853101554, atan2 |-> 0],
    [lat1 |-> "0.0", lon1 |-> "10.0", lat2 |-> "46.3", lon2 |-> "10.0",
     nm |-> 2779873, whole |-> 2779, billionths |-> 873331920, atan2 |-> 0],
    [lat1 |-> "0.0", lon1 |-> "10.0", lat2 |-> "45.05", lon2 |-> "10.0",
     nm |-> 2704823, whole |-> 2704, billionths |-> 822756004, atan2 |-> 0],
    [lat1 |-> "45.0", lon1 |-> "0.0", lat2 |-> "45.5", lon2 |-> "9.704295928443617",
     nm |-> 411039, whole |-> 411, billionths |-> 39315420, atan2 |-> 82374],
    [lat1 |-> "45.0", lon1 |-> "0.0", lat2 |-> "46.0", lon2 |-> "9.746109261186815",
     nm |-> 414246, whole |-> 414, billionths |-> 245644932, atan2 |-> 78212],
    [lat1 |-> "45.0", lon1 |-> "0.0", lat2 |-> "45.5", lon2 |-> "10.295704071556383",
     nm |-> 435926, whole |-> 435, billionths |-> 926490387, atan2 |-> 82404],
    [lat1 |-> "45.0", lon1 |-> "0.0", lat2 |-> "0.0", lon2 |-> "10.0",
     nm |-> 2753694, whole |-> 2753, billionths |-> 693922019, atan2 |-> 165998],
    [lat1 |-> "45.0", lon1 |-> "0.0", lat2 |-> "45.7", lon2 |-> "10.0",
     nm |-> 423756, whole |-> 423, billionths |-> 756079883, atan2 |-> 80765],
    [lat1 |-> "45.0", lon1 |-> "0.0", lat2 |-> "45.2", lon2 |-> "10.0",
     nm |-> 423708, whole |-> 423, billionths |-> 707615290, atan2 |-> 84835],
    [lat1 |-> "45.0", lon1 |-> "0.0", lat2 |-> "46.1", lon2 |-> "10.0",
     nm |-> 425315, whole |-> 425, billionths |-> 315482425, atan2 |-> 77522],
    [lat1 |-> "45.0", lon1 |-> "0.0", lat2 |-> "45.4", lon2 |-> "10.0",
     nm |-> 423473, whole |-> 423, billionths |-> 472991162, atan2 |-> 83207],
    [lat1 |-> "45.0", lon1 |-> "0.0", lat2 |-> "45.9", lon2 |-> "10.0",
     nm |-> 424367, whole |-> 424, billionths |-> 367496670, atan2 |-> 79140],
    [lat1 |-> "45.0", lon1 |-> "0.0", lat2 |-> "45.1", lon2 |-> "10.0",
     nm |-> 423952, whole |-> 423, billionths |-> 951797567, atan2 |-> 85648],
    [lat1 |-> "45.0", lon1 |-> "0.0", lat2 |-> "46.2", lon2 |-> "10.0",
     nm |-> 425915, whole |-> 425, billionths |-> 915017517, atan2 |-> 76715],
    [lat1 |-> "45.0", lon1 |-> "0.0", lat2 |-> "45.6", lon2 |-> "10.0",
     nm |-> 423577, whole |-> 423, billionths |-> 577071663, atan2 |-> 81578],
    [lat1 |-> "45.0", lon1 |-> "0.0", lat2 |-> "45.3", lon2 |-> "10.0",
     nm |-> 423548, whole |-> 423, billionths |-> 547981283, atan2 |-> 84021],
    [lat1 |-> "45.0", lon1 |-> "0.0", lat2 |-> "45.8", lon2 |-> "10.0",
     nm |-> 424020, whole |-> 424, billionths |-> 19607372, atan2 |-> 79952],
    [lat1 |-> "45.0", lon1 |-> "0.0", lat2 |-> "46.3", lon2 |-> "10.0",
     nm |-> 426598, whole |-> 426, billionths |-> 597793336, atan2 |-> 75911],
    [lat1 |-> "45.0", lon1 |-> "0.0", lat2 |-> "45.05", lon2 |-> "10.0",
     nm |-> 424106, whole |-> 424, billionths |-> 105550644, atan2 |-> 86054],
    [lat1 |-> "45.0", lon1 |-> "10.0", lat2 |-> "45.0", lon2 |-> "10.0",
     nm |-> 0, whole |-> 0, billionths |-> 0, atan2 |-> 0],
    [lat1 |-> "45.0", lon1 |-> "10.0", lat2 |-> "0.0", lon2 |-> "0.0",
     nm |-> 2753694, whole |-> 2753, billionths |-> 693922019, atan2 |-> -165998],
    [lat1 |-> "45.0", lon1 |-> "10.0", lat2 |-> "45.0", lon2 |-> "0.0",
     nm |-> 424280, whole |-> 424, billionths |-> 280382133, atan2 |-> -86460],
    [lat1 |-> "45.0", lon1 |-> "10.0", lat2 |-> "90.0", lon2 |-> "0.0",
     nm |-> 2701821, whole |-> 2701, billionths |-> 820732968, atan2 |-> 0],
    [lat1 |-> "45.0", lon1 |-> "10.0", lat2 |-> "-90.0", lon2 |-> "0.0",
     nm |-> 8105462, whole |-> 8105, billionths |-> 462198904, atan2 |-> -180000],
    [lat1 |-> "45.0", lon1 |-> "10.0", lat2 |-> "0.0", lon2 |-> "180.0",
     nm |-> 8053589, whole |-> 8053, billionths |-> 589009852, atan2 |-> 14002],
    [lat1 |-> "45.0", lon1 |-> "10.0", lat2 |-> "0.0", lon2 |-> "-180.0",
     nm |-> 8053589, whole |-> 8053, billionths |-> 589009852, atan2 |-> 14002],
    [lat1 |-> "45.0", lon1 |-> "10.0", lat2 |-> "-33.9", lon2 |-> "151.2",
     nm |-> 8910382, whole |-> 8910, billionths |-> 382346300, atan2 |-> 83092],
    [lat1 |-> "45.0", lon1 |-> "10.0", lat2 |-> "-45.0", lon2 |-> "-170.0",
     nm |-> 10807283, whole |-> 10807, billionths |-> 282931871, atan2 |-> -90000],
    [lat1 |-> "0.0", lon1 |-> "0.0", lat2 |-> "45.0", lon2 |-> "10.0",
     nm |-> 2753694, whole |-> 2753, billionths |-> 693922019, atan2 |-> 9851],
    [lat1 |-> "0.0", lon1 |-> "0.0", lat2 |-> "0.0", lon2 |-> "0.0",
     nm |-> 0, whole |-> 0, billionths |-> 0, atan2 |-> 0],
    [lat1 |-> "0.0", lon1 |-> "0.0", lat2 |-> "45.0", lon2 |-> "0.0",
     nm |-> 2701821, whole |-> 2701, billionths |-> 820732968, atan2 |-> 0],
    [lat1 |-> "0.0", lon1 |-> "0.0", lat2 |-> "90.0", lon2 |-> "0.0",
     nm |-> 5403641, whole |-> 5403, billionths |-> 641465936, atan2 |-> 0],
    [lat1 |-> "0.0", lon1 |-> "0.0", lat2 |-> "-90.0", lon2 |-> "0.0",
     nm |-> 5403641, whole |-> 5403, billionths |-> 641465936, atan2 |-> 180000],
    [lat1 |-> "0.0", lon1 |-> "0.0", lat2 |-> "0.0", lon2 |-> "180.0",
     nm |-> 10807283, whole |-> 10807, billionths |-> 282931871, atan2 |-> 90000],
    [lat1 |-> "0.0", lon1 |-> "0.0", lat2 |-> "0.0", lon2 |-> "-180.0",
     nm |-> 10807283, whole |-> 10807, billionths |-> 282931871, atan2 |-> -90000],
    [lat1 |-> "0.0", lon1 |-> "0.0", lat2 |-> "-33.9", lon2 |-> "151.2",
     nm |-> 8205388, whole |-> 8205, billionths |-> 387612782, atan2 |-> 144362],
    [lat1 |-> "0.0", lon1 |-> "0.0", lat2 |-> "-45.0", lon2 |-> "-170.0",
     nm |-> 8053589, whole |-> 8053, billionths |-> 589009852, atan2 |-> -170149],
    [lat1 |-> "0.0", lon1 |-> "10.0", lat2 |-> "45.0", lon2 |-> "10.0",
     nm |-> 2701821, whole |-> 2701, billionths |-> 820732968, atan2 |-> 0],
    [lat1 |-> "0.0", lon1 |-> "10.0", lat2 |-> "0.0", lon2 |-> "0.0",
     nm |-> 600405, whole |-> 600, billionths |-> 404607326, atan2 |-> -90000],
    [lat1 |-> "0.0", lon1 |-> "10.0", lat2 |-> "45.0", lon2 |-> "0.0",
     nm |-> 2753694, whole |-> 2753, billionths |-> 693922019, atan2 |-> -9851],
    [lat1 |-> "0.0", lon1 |-> "10.0", lat2 |-> "90.0", lon2 |-> "0.0",
     nm |-> 5403641, whole |-> 5403, billionths |-> 641465936, atan2 |-> 0],
    [lat1 |-> "0.0", lon1 |-> "10.0", lat2 |-> "-90.0", lon2 |-> "0.0",
     nm |-> 5403641, whole |-> 5403, billionths |-> 641465936, atan2 |-> -180000],
    [lat1 |-> "0.0", lon1 |-> "10.0", lat2 |-> "0.0", lon2 |-> "180.0",
     nm |-> 10206878, whole |-> 10206, billionths |-> 878324545, atan2 |-> 90000],
    [lat1 |-> "0.0", lon1 |-> "10.0", lat2 |-> "0.0", lon2 |-> "-180.0",
     nm |-> 10206878, whole |-> 10206, billionths |-> 878324545, atan2 |-> 90000],
    [lat1 |-> "0.0", lon1 |-> "10.0", lat2 |-> "-33.9", lon2 |-> "151.2",
     nm |-> 7823589, whole |-> 7823, billionths |-> 589163937, atan2 |-> 137001],
    [lat1 |-> "0.0", lon1 |-> "10.0", lat2 |-> "-45.0", lon2 |-> "-170.0",
     nm |-> 8105462, whole |-> 8105, billionths |-> 462198904, atan2 |-> -180000],
    [lat1 |-> "45.0", lon1 |-> "0.0", lat2 |-> "45.0", lon2 |-> "10.0",
     nm |-> 424280, whole |-> 424, billionths |-> 280382133, atan2 |-> 86460],
    [lat1 |-> "45.0", lon1 |-> "0.0", lat2 |-> "0.0", lon2 |-> "0.0",
     nm |-> 2701821, whole |-> 2701, billionths |-> 820732968, atan2 |-> 180000],
    [lat1 |-> "45.0", lon1 |-> "0.0", lat2 |-> "45.0", lon2 |-> "0.0",
     nm |-> 0, whole |-> 0, billionths |-> 0, atan2 |-> 0],
    [lat1 |-> "45.0", lon1 |-> "0.0", lat2 |-> "90.0", lon2 |-> "0.0",
     nm |-> 2701821, whole |-> 2701, billionths |-> 820732968, atan2 |-> 0],
    [lat1 |-> "45.0", lon1 |-> "0.0", lat2 |-> "-90.0", lon2 |-> "0.0",
     nm |-> 8105462, whole |-> 8105, billionths |-> 462198904, atan2 |-> 180000],
    [lat1 |-> "45.0", lon1 |-> "0.0", lat2 |-> "0.0", lon2 |-> "180.0",
     nm |-> 8105462, whole |-> 8105, billionths |-> 462198904, atan2 |-> 0],
    [lat1 |-> "45.0", lon1 |-> "0.0", lat2 |-> "0.0", lon2 |-> "-180.0",
     nm |-> 8105462, whole |-> 8105, billionths |-> 462198904, atan2 |-> 0],
    [lat1 |-> "45.0", lon1 |-> "0.0", lat2 |-> "-33.9", lon2 |-> "151.2",
     nm |-> 9325832, whole |-> 9325, billionths |-> 831778338, atan2 |-> 73305],
    [lat1 |-> "45.0", lon1 |-> "0.0", lat2 |-> "-45.0", lon2 |-> "-170.0",
     nm |-> 10383003, whole |-> 10383, billionths |-> 2549739, atan2 |-> -93540],
    [lat1 |-> "45.5", lon1 |-> "9.704295928443617", lat2 |-> "45.0", lon2 |-> "10.0",
     nm |-> 32518, whole |-> 32, billionths |-> 518312491, atan2 |-> 157290],
    [lat1 |-> "45.5", lon1 |-> "9.704295928443617", lat2 |-> "0.0", lon2 |-> "0.0",
     nm |-> 2779886, whole |-> 2779, billionths |-> 885580980, atan2 |-> -166517],
    [lat1 |-> "45.5", lon1 |-> "9.704295928443617", lat2 |-> "0.0", lon2 |-> "10.0",
     nm |-> 2731886, whole |-> 2731, billionths |-> 885985044, atan2 |-> 179585],
    [lat1 |-> "45.5", lon1 |-> "9.704295928443617", lat2 |-> "45.0", lon2 |-> "0.0",
     nm |-> 411039, whole |-> 411, billionths |-> 39315420, atan2 |-> -90726],
    [lat1 |-> "45.5", lon1 |-> "9.704295928443617", lat2 |-> "45.5", lon2 |-> "9.704295928443617",
     nm |-> 0, whole |-> 0, billionths |-> 0, atan2 |-> 0],
    [lat1 |-> "45.5", lon1 |-> "9.704295928443617", lat2 |-> "46.0", lon2 |-> "9.746109261186815",
     nm |-> 30071, whole |-> 30, billionths |-> 71297670, atan2 |-> 3325],
    [lat1 |-> "45.5", lon1 |-> "9.704295928443617", lat2 |-> "45.5", lon2 |-> "10.295704071556383",
     nm |-> 24888, whole |-> 24, billionths |-> 888122504, atan2 |-> 89789],
    [lat1 |-> "45.5", lon1 |-> "9.704295928443617", lat2 |-> "90.0", lon2 |-> "0.0",
     nm |-> 2671801, whole |-> 2671, billionths |-> 800502602, atan2 |-> 0],
    [lat1 |-> "45.5", lon1 |-> "9.704295928443617", lat2 |-> "-90.0", lon2 |-> "0.0",
     nm |-> 8135482, whole |-> 8135, billionths |-> 482429270, atan2 |-> -180000],
    [lat1 |-> "45.5", lon1 |-> "9.704295928443617", lat2 |-> "0.0", lon2 |-> "180.0",
     nm |-> 8027397, whole |-> 8027, billionths |-> 397350892, atan2 |-> 13483],
    [lat1 |-> "45.5", lon1 |-> "9.704295928443617", lat2 |-> "0.0", lon2 |-> "-180.0",
     nm |-> 8027397, whole |-> 8027, billionths |-> 397350892, atan2 |-> 13483],
    [lat1 |-> "45.5", lon1 |-> "9.704295928443617", lat2 |-> "-33.9", lon2 |-> "151.2",
     nm |-> 8918890, whole |-> 8918, billionths |-> 889741078, atan2 |-> 82029],
    [lat1 |-> "45.5", lon1 |-> "9.704295928443617", lat2 |-> "-45.0", lon2 |-> "-170.0",
     nm |-> 10774765, whole |-> 10774, billionths |-> 764619380, atan2 |-> -22710],
    [lat1 |-> "46.0", lon1 |-> "9.746109261186815", lat2 |-> "45.0", lon2 |-> "10.0",
     nm |-> 60984, whole |-> 60, billionths |-> 983626217, atan2 |-> 169819],
    [lat1 |-> "46.0", lon1 |-> "9.746109261186815", lat2 |-> "0.0", lon2 |-> "0.0",
     nm |-> 2809489, whole |-> 2809, billionths |-> 489364677, atan2 |-> -166571],
    [lat1 |-> "46.0", lon1 |-> "9.746109261186815", lat2 |-> "0.0", lon2 |-> "10.0",
     nm |-> 2761894, whole |-> 2761, billionths |-> 893808866, atan2 |-> 179647],
    [lat1 |-> "46.0", lon1 |-> "9.746109261186815", lat2 |-> "45.0", lon2 |-> "0.0",
     nm |-> 414246, whole |-> 414, billionths |-> 245644932, atan2 |-> -94828],
    [lat1 |-> "46.0", lon1 |-> "9.746109261186815", lat2 |-> "45.5", lon2 |-> "9.704295928443617",
     nm |-> 30071, whole |-> 30, billionths |-> 71297670, atan2 |-> -176645],
    [lat1 |-> "46.0", lon1 |-> "9.746109261186815", lat2 |-> "46.0", lon2 |-> "9.746109261186815",
     nm |-> 0, whole |-> 0, billionths |-> 0, atan2 |-> 0],
    [lat1 |-> "46.0", lon1 |-> "9.746109261186815", lat2 |-> "45.5", lon2 |-> "10.295704071556383",
     nm |-> 37834, whole |-> 37, billionths |-> 833558327, atan2 |-> 142315],
    [lat1 |-> "46.0", lon1 |-> "9.746109261186815", lat2 |-> "90.0", lon2 |-> "0.0",
     nm |-> 2641780, whole |-> 2641, billionths |-> 780272235, atan2 |-> 0],
    [lat1 |-> "46.0", lon1 |-> "9.746109261186815", lat2 |-> "-90.0", lon2 |-> "0.0",
     nm |-> 8165503, whole |-> 8165, billionths |-> 502659636, atan2 |-> -180000],
    [lat1 |-> "46.0", lon1 |-> "9.746109261186815", lat2 |-> "0.0", lon2 |-> "180.0",
     nm |-> 7997794, whole |-> 7997, billionths |-> 793567194, atan2 |-> 13429],
    [lat1 |-> "46.0", lon1 |-> "9.746109261186815", lat2 |-> "0.0", lon2 |-> "-180.0",
     nm |-> 7997794, whole |-> 7997, billionths |-> 793567194, atan2 |-> 13429],
    [lat1 |-> "46.0", lon1 |-> "9.746109261186815", lat2 |-> "-33.9", lon2 |-> "151.2",
     nm |-> 8912794, whole |-> 8912, billionths |-> 793852369, atan2 |-> 81259],
    [lat1 |-> "46.0", lon1 |-> "9.746109261186815", lat2 |-> "-45.0", lon2 |-> "-170.0",
     nm |-> 10746299, whole |-> 10746, billionths |-> 299305654, atan2 |-> -10181],
    [lat1 |-> "45.5", lon1 |-> "10.295704071556383", lat2 |-> "45.0", lon2 |-> "10.0",
     nm |-> 32518, whole |-> 32, billionths |-> 518312491, atan2 |-> -157290],
    [lat1 |-> "45.5", lon1 |-> "10.295704071556383", lat2 |-> "0.0", lon2 |-> "0.0",
     nm |-> 2785858, whole |-> 2785, billionths |-> 858428900, atan2 |-> -165711],
    [lat1 |-> "45.5", lon1 |-> "10.295704071556383", lat2 |-> "0.0", lon2 |-> "10.0",
     nm |-> 2731886, whole |-> 2731, billionths |-> 885985044, atan2 |-> -179585],
    [lat1 |-> "45.5", lon1 |-> "10.295704071556383", lat2 |-> "45.0", lon2 |-> "0.0",
     nm |-> 435926, whole |-> 435, billionths |-> 926490387, atan2 |-> -90275],
    [lat1 |-> "45.5", lon1 |-> "10.295704071556383", lat2 |-> "45.5", lon2 |-> "9.704295928443617",
     nm |-> 24888, whole |-> 24, billionths |-> 888122504, atan2 |-> -89789],
    [lat1 |-> "45.5", lon1 |-> "10.295704071556383", lat2 |-> "46.0", lon2 |-> "9.746109261186815",
     nm |-> 37834, whole |-> 37, billionths |-> 833558327, atan2 |-> -37292],
    [lat1 |-> "45.5", lon1 |-> "10.295704071556383", lat2 |-> "45.5", lon2 |-> "10.295704071556383",
     nm |-> 0, whole |-> 0, billionths |-> 0, atan2 |-> 0],
    [lat1 |-> "45.5", lon1 |-> "10.295704071556383", lat2 |-> "90.0", lon2 |-> "0.0",
     nm |-> 2671801, whole |-> 2671, billionths |-> 800502602, atan2 |-> 0],
    [lat1 |-> "45.5", lon1 |-> "10.295704071556383", lat2 |-> "-90.0", lon2 |-> "0.0",
     nm |-> 8135482, whole |-> 8135, billionths |-> 482429270, atan2 |-> -180000],
    [lat1 |-> "45.5", lon1 |-> "10.295704071556383", lat2 |-> "0.0", lon2 |-> "180.0",
     nm |-> 8021425, whole |-> 8021, billionths |-> 424502972, atan2 |-> 14289],
    [lat1 |-> "45.5", lon1 |-> "10.295704071556383", lat2 |-> "0.0", lon2 |-> "-180.0",
     nm |-> 8021425, whole |-> 8021, billionths |-> 424502972, atan2 |-> 14289],
    [lat1 |-> "45.5", lon1 |-> "10.295704071556383", lat2 |-> "-33.9", lon2 |-> "151.2",
     nm |-> 8894227, whole |-> 8894, billionths |-> 226866696, atan2 |-> 82542],
    [lat1 |-> "45.5", lon1 |-> "10.295704071556383", lat2 |-> "-45.0", lon2 |-> "-170.0",
     nm |-> 10774765, whole |-> 10774, billionths |-> 764619380, atan2 |-> 22710],
    [lat1 |-> "90.0", lon1 |-> "0.0", lat2 |-> "45.0", lon2 |-> "10.0",
     nm |-> 2701821, whole |-> 2701, billionths |-> 820732968, atan2 |-> 170000],
    [lat1 |-> "90.0", lon1 |-> "0.0", lat2 |-> "0.0", lon2 |-> "0.0",
     nm |-> 5403641, whole |-> 5403, billionths |-> 641465936, atan2 |-> 180000],
    [lat1 |-> "90.0", lon1 |-> "0.0", lat2 |-> "0.0", lon2 |-> "10.0",
     nm |-> 5403641, whole |-> 5403, billionths |-> 641465936, atan2 |-> 170000],
    [lat1 |-> "90.0", lon1 |-> "0.0", lat2 |-> "45.0", lon2 |-> "0.0",
     nm |-> 2701821, whole |-> 2701, billionths |-> 820732968, atan2 |-> 180000],
    [lat1 |-> "90.0", lon1 |-> "0.0", lat2 |-> "45.5", lon2 |-> "9.704295928443617",
     nm |-> 2671801, whole |-> 2671, billionths |-> 800502602, atan2 |-> 170296],
    [lat1 |-> "90.0", lon1 |-> "0.0", lat2 |-> "46.0", lon2 |-> "9.746109261186815",
     nm |-> 2641780, whole |-> 2641, billionths |-> 780272235, atan2 |-> 170254],
    [lat1 |-> "90.0", lon1 |-> "0.0", lat2 |-> "45.5", lon2 |-> "10.295704071556383",
     nm |-> 2671801, whole |-> 2671, billionths |-> 800502602, atan2 |-> 169704],
    [lat1 |-> "90.0", lon1 |-> "0.0", lat2 |-> "90.0", lon2 |-> "0.0",
     nm |-> 0, whole |-> 0, billionths |-> 0, atan2 |-> 0],
    [lat1 |-> "90.0", lon1 |-> "0.0", lat2 |-> "-90.0", lon2 |-> "0.0",
     nm |-> 10807283, whole |-> 10807, billionths |-> 282931871, atan2 |-> 180000],
    [lat1 |-> "90.0", lon1 |-> "0.0", lat2 |-> "0.0", lon2 |-> "180.0",
     nm |-> 5403641, whole |-> 5403, billionths |-> 641465936, atan2 |-> 0],
    [lat1 |-> "90.0", lon1 |-> "0.0", lat2 |-> "0.0", lon2 |-> "-180.0",
     nm |-> 5403641, whole |-> 5403, billionths |-> 641465936, atan2 |-> 0],
    [lat1 |-> "90.0", lon1 |-> "0.0", lat2 |-> "-33.9", lon2 |-> "151.2",
     nm |-> 7439013, whole |-> 7439, billionths |-> 13084771, atan2 |-> 28800],
    [lat1 |-> "90.0", lon1 |-> "0.0", lat2 |-> "-45.0", lon2 |-> "-170.0",
     nm |-> 8105462, whole |-> 8105, billionths |-> 462198904, atan2 |-> -10000],
    [lat1 |-> "-90.0", lon1 |-> "0.0", lat2 |-> "45.0", lon2 |-> "10.0",
     nm |-> 8105462, whole |-> 8105, billionths |-> 462198904, atan2 |-> 10000],
    [lat1 |-> "-90.0", lon1 |-> "0.0", lat2 |-> "0.0", lon2 |-> "0.0",
     nm |-> 5403641, whole |-> 5403, billionths |-> 641465936, atan2 |-> 0],
    [lat1 |-> "-90.0", lon1 |-> "0.0", lat2 |-> "0.0", lon2 |-> "10.0",
     nm |-> 5403641, whole |-> 5403, billionths |-> 641465936, atan2 |-> 10000],
    [lat1 |-> "-90.0", lon1 |-> "0.0", lat2 |-> "45.0", lon2 |-> "0.0",
     nm |-> 8105462, whole |-> 8105, billionths |-> 462198904, atan2 |-> 0],
    [lat1 |-> "-90.0", lon1 |-> "0.0", lat2 |-> "45.5", lon2 |-> "9.704295928443617",
     nm |-> 8135482, whole |-> 8135, billionths |-> 482429270, atan2 |-> 9704],
    [lat1 |-> "-90.0", lon1 |-> "0.0", lat2 |-> "46.0", lon2 |-> "9.746109261186815",
     nm |-> 8165503, whole |-> 8165, billionths |-> 502659636, atan2 |-> 9746],
    [lat1 |-> "-90.0", lon1 |-> "0.0", lat2 |-> "45.5", lon2 |-> "10.295704071556383",
     nm |-> 8135482, whole |-> 8135, billionths |-> 482429270, atan2 |-> 10296],
    [lat1 |-> "-90.0", lon1 |-> "0.0", lat2 |-> "90.0", lon2 |-> "0.0",
     nm |-> 10807283, whole |-> 10807, billionths |-> 282931871, atan2 |-> 0],
    [lat1 |-> "-90.0", lon1 |-> "0.0", lat2 |-> "-90.0", lon2 |-> "0.0",
     nm |-> 0, whole |-> 0, billionths |-> 0, atan2 |-> 0],
    [lat1 |-> "-90.0", lon1 |-> "0.0", lat2 |-> "0.0", lon2 |-> "180.0",
     nm |-> 5403641, whole |-> 5403, billionths |-> 641465936, atan2 |-> 180000],
    [lat1 |-> "-90.0", lon1 |-> "0.0", lat2 |-> "0.0", lon2 |-> "-180.0",
     nm |-> 5403641, whole |-> 5403, billionths |-> 641465936, atan2 |-> -180000],
    [lat1 |-> "-90.0", lon1 |-> "0.0", lat2 |-> "-33.9", lon2 |-> "151.2",
     nm |-> 3368270, whole |-> 3368, billionths |-> 269847100, atan2 |-> 151200],
    [lat1 |-> "-90.0", lon1 |-> "0.0", lat2 |-> "-45.0", lon2 |-> "-170.0",
     nm |-> 2701821, whole |-> 2701, billionths |-> 820732968, atan2 |-> -170000],
    [lat1 |-> "0.0", lon1 |-> "180.0", lat2 |-> "45.0", lon2 |-> "10.0",
     nm |-> 8053589, whole |-> 8053, billionths |-> 589009852, atan2 |-> -9851],
    [lat1 |-> "0.0", lon1 |-> "180.0", lat2 |-> "0.0", lon2 |-> "0.0",
     nm |-> 10807283, whole |-> 10807, billionths |-> 282931871, atan2 |-> -90000],
    [lat1 |-> "0.0", lon1 |-> "180.0", lat2 |-> "0.0", lon2 |-> "10.0",
     nm |-> 10206878, whole |-> 10206, billionths |-> 878324545, atan2 |-> -90000],
    [lat1 |-> "0.0", lon1 |-> "180.0", lat2 |-> "45.0", lon2 |-> "0.0",
     nm |-> 8105462, whole |-> 8105, billionths |-> 462198904, atan2 |-> 0],
    [lat1 |-> "0.0", lon1 |-> "180.0", lat2 |-> "45.5", lon2 |-> "9.704295928443617",
     nm |-> 8027397, whole |-> 8027, billionths |-> 397350892, atan2 |-> -9405],
    [lat1 |-> "0.0", lon1 |-> "180.0", lat2 |-> "46.0", lon2 |-> "9.746109261186815",
     nm |-> 7997794, whole |-> 7997, billionths |-> 793567194, atan2 |-> -9284],
    [lat1 |-> "0.0", lon1 |-> "180.0", lat2 |-> "45.5", lon2 |-> "10.295704071556383",
     nm |-> 8021425, whole |-> 8021, billionths |-> 424502972, atan2 |-> -9962],
    [lat1 |-> "0.0", lon1 |-> "180.0", lat2 |-> "90.0", lon2 |-> "0.0",
     nm |-> 5403641, whole |-> 5403, billionths |-> 641465936, atan2 |-> 0],
    [lat1 |-> "0.0", lon1 |-> "180.0", lat2 |-> "-90.0", lon2 |-> "0.0",
     nm |-> 5403641, whole |-> 5403, billionths |-> 641465936, atan2 |-> -180000],
    [lat1 |-> "0.0", lon1 |-> "180.0", lat2 |-> "0.0", lon2 |-> "180.0",
     nm |-> 0, whole |-> 0, billionths |-> 0, atan2 |-> 0],
    [lat1 |-> "0.0", lon1 |-> "180.0", lat2 |-> "0.0", lon2 |-> "-180.0",
     nm |-> 0, whole |-> 0, billionths |-> 0, atan2 |-> 90000],
    [lat1 |-> "0.0", lon1 |-> "180.0", lat2 |-> "-33.9", lon2 |-> "151.2",
     nm |-> 2601895, whole |-> 2601, billionths |-> 895319089, atan2 |-> -144362],
    [lat1 |-> "0.0", lon1 |-> "180.0", lat2 |-> "-45.0", lon2 |-> "-170.0",
     nm |-> 2753694, whole |-> 2753, billionths |-> 693922019, atan2 |-> 170149],
    [lat1 |-> "0.0", lon1 |-> "-180.0", lat2 |-> "45.0", lon2 |-> "10.0",
     nm |-> 8053589, whole |-> 8053, billionths |-> 589009852, atan2 |-> -9851],
    [lat1 |-> "0.0", lon1 |-> "-180.0", lat2 |-> "0.0", lon2 |-> "0.0",
     nm |-> 10807283, whole |-> 10807, billionths |-> 282931871, atan2 |-> 90000],
    [lat1 |-> "0.0", lon1 |-> "-180.0", lat2 |-> "0.0", lon2 |-> "10.0",
     nm |-> 10206878, whole |-> 10206, billionths |-> 878324545, atan2 |-> -90000],
    [lat1 |-> "0.0", lon1 |-> "-180.0", lat2 |-> "45.0", lon2 |-> "0.0",
     nm |-> 8105462, whole |-> 8105, billionths |-> 462198904, atan2 |-> 0],
    [lat1 |-> "0.0", lon1 |-> "-180.0", lat2 |-> "45.5", lon2 |-> "9.704295928443617",
     nm |-> 8027397, whole |-> 8027, billionths |-> 397350892, atan2 |-> -9405],
    [lat1 |-> "0.0", lon1 |-> "-180.0", lat2 |-> "46.0", lon2 |-> "9.746109261186815",
     nm |-> 7997794, whole |-> 7997, billionths |-> 793567194, atan2 |-> -9284],
    [lat1 |-> "0.0", lon1 |-> "-180.0", lat2 |-> "45.5", lon2 |-> "10.295704071556383",
     nm |-> 8021425, whole |-> 8021, billionths |-> 424502972, atan2 |-> -9962],
    [lat1 |-> "0.0", lon1 |-> "-180.0", lat2 |-> "90.0", lon2 |-> "0.0",
     nm |-> 5403641, whole |-> 5403, billionths |-> 641465936, atan2 |-> 0],
    [lat1 |-> "0.0", lon1 |-> "-180.0", lat2 |-> "-90.0", lon2 |-> "0.0",
     nm |-> 5403641, whole |-> 5403, billionths |-> 641465936, atan2 |-> 180000],
    [lat1 |-> "0.0", lon1 |-> "-180.0", lat2 |-> "0.0", lon2 |-> "180.0",
     nm |-> 0, whole |-> 0, billionths |-> 0, atan2 |-> -90000],
    [lat1 |-> "0.0", lon1 |-> "-180.0", lat2 |-> "0.0", lon2 |-> "-180.0",
     nm |-> 0, whole |-> 0, billionths |-> 0, atan2 |-> 0],
    [lat1 |-> "0.0", lon1 |-> "-180.0", lat2 |-> "-33.9", lon2 |-> "151.2",
     nm |-> 2601895, whole |-> 2601, billionths |-> 895319089, atan2 |-> -144362],
    [lat1 |-> "0.0", lon1 |-> "-180.0", lat2 |-> "-45.0", lon2 |-> "-170.0",
     nm |-> 2753694, whole |-> 2753, billionths |-> 693922019, atan2 |-> 170149],
    [lat1 |-> "-33.9", lon1 |-> "151.2", lat2 |-> "45.0", lon2 |-> "10.0",
     nm |-> 8910382, whole |-> 8910, billionths |-> 382346300, atan2 |-> -57751],
    [lat1 |-> "-33.9", lon1 |-> "151.2", lat2 |-> "0.0", lon2 |-> "0.0",
     nm |-> 8205388, whole |-> 8205, billionths |-> 387612782, atan2 |-> -135413],
    [lat1 |-> "-33.9", lon1 |-> "151.2", lat2 |-> "0.0", lon2 |-> "10.0",
     nm |-> 7823589, whole |-> 7823, billionths |-> 589163937, atan2 |-> -124749],
    [lat1 |-> "-33.9", lon1 |-> "151.2", lat2 |-> "45.0", lon2 |-> "0.0",
     nm |-> 9325832, whole |-> 9325, billionths |-> 831778338, atan2 |-> -54688],
    [lat1 |-> "-33.9", lon1 |-> "151.2", lat2 |-> "45.5", lon2 |-> "9.704295928443617",
     nm |-> 8918890, whole |-> 8918, billionths |-> 889741078, atan2 |-> -56751],
    [lat1 |-> "-33.9", lon1 |-> "151.2", lat2 |-> "46.0", lon2 |-> "9.746109261186815",
     nm |-> 8912794, whole |-> 8912, billionths |-> 793852369, atan2 |-> -55813],
    [lat1 |-> "-33.9", lon1 |-> "151.2", lat2 |-> "45.5", lon2 |-> "10.295704071556383",
     nm |-> 8894227, whole |-> 8894, billionths |-> 226866696, atan2 |-> -56857],
    [lat1 |-> "-33.9", lon1 |-> "151.2", lat2 |-> "90.0", lon2 |-> "0.0",
     nm |-> 7439013, whole |-> 7439, billionths |-> 13084771, atan2 |-> 0],
    [lat1 |-> "-33.9", lon1 |-> "151.2", lat2 |-> "-90.0", lon2 |-> "0.0",
     nm |-> 3368270, whole |-> 3368, billionths |-> 269847100, atan2 |-> -180000],
    [lat1 |-> "-33.9", lon1 |-> "151.2", lat2 |-> "0.0", lon2 |-> "180.0",
     nm |-> 2601895, whole |-> 2601, billionths |-> 895319089, atan2 |-> 44587],
    [lat1 |-> "-33.9", lon1 |-> "151.2", lat2 |-> "0.0", lon2 |-> "-180.0",
     nm |-> 2601895, whole |-> 2601, billionths |-> 895319089, atan2 |-> 44587],
    [lat1 |-> "-33.9", lon1 |-> "151.2", lat2 |-> "-33.9", lon2 |-> "151.2",
     nm |-> 0, whole |-> 0, billionths |-> 0, atan2 |-> 0],
    [lat1 |-> "-33.9", lon1 |-> "151.2", lat2 |-> "-45.0", lon2 |-> "-170.0",
     nm |-> 1896901, whole |-> 1896, billionths |-> 900585571, atan2 |-> 122249],
    [lat1 |-> "-45.0", lon1 |-> "-170.0", lat2 |-> "45.0", lon2 |-> "10.0",
     nm |-> 10807283, whole |-> 10807, billionths |-> 282931871, atan2 |-> 90000],
    [lat1 |-> "-45.0", lon1 |-> "-170.0", lat2 |-> "0.0", lon2 |-> "0.0",
     nm |-> 8053589, whole |-> 8053, billionths |-> 589009852, atan2 |-> 165998],
    [lat1 |-> "-45.0", lon1 |-> "-170.0", lat2 |-> "0.0", lon2 |-> "10.0",
     nm |-> 8105462, whole |-> 8105, billionths |-> 462198904, atan2 |-> 180000],
    [lat1 |-> "-45.0", lon1 |-> "-170.0", lat2 |-> "45.0", lon2 |-> "0.0",
     nm |-> 10383003, whole |-> 10383, billionths |-> 2549739, atan2 |-> 86460],
    [lat1 |-> "-45.0", lon1 |-> "-170.0", lat2 |-> "45.5", lon2 |-> "9.704295928443617",
     nm |-> 10774765, whole |-> 10774, billionths |-> 764619380, atan2 |-> 22500],
    [lat1 |-> "-45.0", lon1 |-> "-170.0", lat2 |-> "46.0", lon2 |-> "9.746109261186815",
     nm |-> 10746299, whole |-> 10746, billionths |-> 299305654, atan2 |-> 10000],
    [lat1 |-> "-45.0", lon1 |-> "-170.0", lat2 |-> "45.5", lon2 |-> "10.295704071556383",
     nm |-> 10774765, whole |-> 10774, billionths |-> 764619380, atan2 |-> -22500],
    [lat1 |-> "-45.0", lon1 |-> "-170.0", lat2 |-> "90.0", lon2 |-> "0.0",
     nm |-> 8105462, whole |-> 8105, billionths |-> 462198904, atan2 |-> 0],
    [lat1 |-> "-45.0", lon1 |-> "-170.0", lat2 |-> "-90.0", lon2 |-> "0.0",
     nm |-> 2701821, whole |-> 2701, billionths |-> 820732968, atan2 |-> 180000],
    [lat1 |-> "-45.0", lon1 |-> "-170.0", lat2 |-> "0.0", lon2 |-> "180.0",
     nm |-> 2753694, whole |-> 2753, billionths |-> 693922019, atan2 |-> -14002],
    [lat1 |-> "-45.0", lon1 |-> "-170.0", lat2 |-> "0.0", lon2 |-> "-180.0",
     nm |-> 2753694, whole |-> 2753, billionths |-> 693922019, atan2 |-> -14002],
    [lat1 |-> "-45.0", lon1 |-> "-170.0", lat2 |-> "-33.9", lon2 |-> "151.2",
     nm |-> 1896901, whole |-> 1896, billionths |-> 900585571, atan2 |-> -83092],
    [lat1 |-> "-45.0", lon1 |-> "-170.0", lat2 |-> "-45.0", lon2 |-> "-170.0",
     nm |-> 0, whole |-> 0, billionths |-> 0, atan2 |-> 0]}

GeoRow(lat1, lon1, lat2, lon2) ==
  CHOOSE r \in GeoTable :
    /\ r.lat1 = lat1.float /\ r.lon1 = lon1.float
    /\ r.lat2 = lat2.float /\ r.lon2 = lon2.float

_calculate_distance(lat1, lon1, lat2, lon2) == GeoRow(lat1, lon1, lat2, lon2).nm

\* The distance measured from the first point of the table whatever the
\* first point given.
_calculate_distance_1e9_from_fixed_point(lat1, lon1, lat2, lon2) ==
  LET r == GeoRow([float |-> "45.0"], [float |-> "10.0"], lat2, lon2)
  IN [whole |-> r.whole, billionths |-> r.billionths]

\* The value _calculate_distance returns, to the billionth of a nautical mile.
_calculate_distance_1e9(lat1, lon1, lat2, lon2) ==
  LET r == GeoRow(lat1, lon1, lat2, lon2)
  IN [whole |-> r.whole, billionths |-> r.billionths]

\* degrees(atan2(y, x)), before line 496 normalises it.
RawBearing(lat1, lon1, lat2, lon2) == GeoRow(lat1, lon1, lat2, lon2).atan2

\* The raw angle returned as it is.
_calculate_bearing_unnormalised(lat1, lon1, lat2, lon2) ==
  RawBearing(lat1, lon1, lat2, lon2)

\* Line 496: bearing = (bearing + 360) % 360
_calculate_bearing(lat1, lon1, lat2, lon2) ==
  (RawBearing(lat1, lon1, lat2, lon2) + 360000) % 360000

_get_direction_range(direction) ==
  CASE direction = north -> <<337500, 22500>>
    [] direction = northeast -> <<22500, 67500>>
    [] direction = east -> <<67500, 112500>>
    [] direction = southeast -> <<112500, 157500>>
    [] direction = south -> <<157500, 202500>>
    [] direction = southwest -> <<202500, 247500>>
    [] direction = west -> <<247500, 292500>>
    [] direction = northwest -> <<292500, 337500>>
    [] OTHER -> <<0, 360000>>

----------------------------------------------------------------------------
(* The feeder *)

\* An endpoint either answers with a JSON document or the request fails
\* (connection error, timeout, HTTP error status).
Ok(doc) == [status |-> "ok", json |-> doc]
Failing == [status |-> "error"]

\* _fetch_json raises iff the request fails.
_fetch_json_raises(endpoint) == endpoint.status # "ok"
_fetch_json(endpoint) == endpoint.json

----------------------------------------------------------------------------
(* Results *)

\* A handler's outcome: the response it returns and the endpoints it requested.
\*   kind     which of the handler's return statements produced the response
\*   exc      the exception the handler's except clause reported, "" if none
\*   entries  the aircraft entries the response lists
Outcome(kind, entries, log) ==
  [result |-> [kind |-> kind, exc |-> "", entries |-> entries], fetched |-> log]

RaisedAfterRetry(exc, log) ==
  [result |-> [kind |-> "Exception", exc |-> exc, entries |-> <<>>],
   fetched |-> IF log = <<>> THEN log ELSE Append(log, log[Len(log)])]

\* The handler's `except Exception as e` clause: an error text, no entries.
Raised(exc, log) ==
  [result |-> [kind |-> "Exception", exc |-> exc, entries |-> <<>>], fetched |-> log]

----------------------------------------------------------------------------
(* Ranking *)

\* list.sort(key=lambda x: x[0]) is stable: an element is placed after every
\* element whose key is less than or equal to its own.
InsertBeforeTies(sorted, e) ==
  LET k == Cardinality({i \in 1..Len(sorted) : sorted[i][1] < e[1]})
  IN SubSeq(sorted, 1, k) \o <<e>> \o SubSeq(sorted, k + 1, Len(sorted))

InsertByDistance(sorted, e) ==
  LET k == Cardinality({i \in 1..Len(sorted) : sorted[i][1] <= e[1]})
  IN SubSeq(sorted, 1, k) \o <<e>> \o SubSeq(sorted, k + 1, Len(sorted))

RECURSIVE SortByDistance(_)
SortByDistance(s) ==
  IF s = <<>> THEN <<>>
  ELSE InsertByDistance(SortByDistance(SubSeq(s, 1, Len(s) - 1)), s[Len(s)])

\* "lat" in aircraft and "lon" in aircraft
HasPosition(aircraft) == "lat" \in DOMAIN aircraft /\ "lon" \in DOMAIN aircraft

\* max_distance is None or distance <= max_distance  (max_distance a number)
WithinMaxDistance(distance, max_distance) ==
  max_distance = None \/ distance <= Milli(max_distance)

\* not isinstance(count, int) or count < 1 or count > 50
MinCount == 1
MaxCount == 50
InvalidCountAllowsZero(count) ==
  ~IsInt(count) \/ count.int < 0 \/ count.int > MaxCount
InvalidCount(count) == ~IsInt(count) \/ count.int < MinCount \/ count.int > MaxCount

\* not feeder_lat or not feeder_lon
NoReceiverLocation(feeder_lat, feeder_lon) == ~Truthy(feeder_lat) \/ ~Truthy(feeder_lon)

----------------------------------------------------------------------------
(* get_closest_aircraft *)

DefaultClosestCount == 5

_get_closest_aircraft(a, receiver, aircraft) ==
  LET count == Get(a, "count", PyInt(DefaultClosestCount)) IN
  IF InvalidCount(count) THEN Outcome("InvalidCount", <<>>, <<>>)
  ELSE
  LET max_distance == Get(a, "max_distance", None) IN
  IF _fetch_json_raises(receiver) THEN Raised("HTTPError", <<"receiver.json">>)
  ELSE
  LET receiver_data == _fetch_json(receiver)
      feeder_lat == Get(receiver_data, "lat", None)
      feeder_lon == Get(receiver_data, "lon", None)
  IN
  IF NoReceiverLocation(feeder_lat, feeder_lon)
  THEN Outcome("NoReceiverLocation", <<>>, <<"receiver.json">>)
  ELSE
  IF _fetch_json_raises(aircraft)
  THEN Raised("HTTPError", <<"receiver.json", "aircraft.json">>)
  ELSE
  LET aircraft_list == Get(_fetch_json(aircraft), "aircraft", <<>>)
      positioned == SelectSeq(aircraft_list, HasPosition)
      Distance(ac) == _calculate_distance(feeder_lat, feeder_lon, ac.lat, ac.lon)
      Measured(ac) == <<Distance(ac), ac>>
      Kept(e) == WithinMaxDistance(e[1], max_distance)
  IN
  \* distance <= max_distance raises TypeError when max_distance is no number
  IF max_distance # None /\ ~IsNumber(max_distance) /\ positioned # <<>>
  THEN Raised("TypeError", <<"receiver.json", "aircraft.json">>)
  ELSE
  LET aircraft_with_distances == SelectSeq(Map(positioned, Measured), Kept)
      closest_aircraft == Take(SortByDistance(aircraft_with_distances), count.int)
  IN
  IF closest_aircraft = <<>>
  THEN Outcome("NoAircraft", <<>>, <<"receiver.json", "aircraft.json">>)
  ELSE Outcome("Listing", closest_aircraft, <<"receiver.json", "aircraft.json">>)

----------------------------------------------------------------------------
(* get_aircraft_by_direction *)

DefaultDirectionCount == 10

valid_directions ==
  <<north, south, east, west, northeast, northwest, southeast, southwest>>

in_direction_no_wraparound(bearing, min_bearing, max_bearing) ==
  min_bearing <= bearing /\ bearing <= max_bearing

in_direction_half_open(bearing, min_bearing, max_bearing) ==
  IF min_bearing <= max_bearing
  THEN min_bearing <= bearing /\ bearing < max_bearing
  ELSE bearing >= min_bearing \/ bearing < max_bearing

\* Lines 634-637: the closed interval, or its wraparound form when min > max.
in_direction(bearing, min_bearing, max_bearing) ==
  IF min_bearing <= max_bearing
  THEN min_bearing <= bearing /\ bearing <= max_bearing
  ELSE bearing >= min_bearing \/ bearing <= max_bearing

\* direction not in valid_directions
InvalidDirection(direction) == ~InList(direction, valid_directions)

_get_aircraft_by_direction(a, receiver, aircraft) ==
  IF "direction" \notin DOMAIN a THEN Raised("KeyError", <<>>)
  ELSE IF ~IsStr(a.direction) THEN Raised("AttributeError", <<>>)
  ELSE
  LET direction == lower(a.direction.str) IN
  IF InvalidDirection(direction) THEN Outcome("InvalidDirection", <<>>, <<>>)
  ELSE
  LET max_distance == Get(a, "max_distance", None)
      count == Get(a, "count", PyInt(DefaultDirectionCount))
  IN
  IF InvalidCount(count) THEN Outcome("InvalidCount", <<>>, <<>>)
  ELSE
  IF _fetch_json_raises(receiver) THEN Raised("HTTPError", <<"receiver.json">>)
  ELSE
  LET receiver_data == _fetch_json(receiver)
      feeder_lat == Get(receiver_data, "lat", None)
      feeder_lon == Get(receiver_data, "lon", None)
  IN
  IF NoReceiverLocation(feeder_lat, feeder_lon)
  THEN Outcome("NoReceiverLocation", <<>>, <<"receiver.json">>)
  ELSE
  LET range == _get_direction_range(direction)
      min_bearing == range[1]
      max_bearing == range[2]
  IN
  IF _fetch_json_raises(aircraft)
  THEN Raised("HTTPError", <<"receiver.json", "aircraft.json">>)
  ELSE
  LET aircraft_list == Get(_fetch_json(aircraft), "aircraft", <<>>)
      Bearing(ac) == _calculate_bearing(feeder_lat, feeder_lon, ac.lat, ac.lon)
      Distance(ac) == _calculate_distance(feeder_lat, feeder_lon, ac.lat, ac.lon)
      InSector(ac) ==
        HasPosition(ac) /\ in_direction(Bearing(ac), min_bearing, max_bearing)
      sector == SelectSeq(aircraft_list, InSector)
      Measured(ac) == <<Distance(ac), Bearing(ac), ac>>
      Kept(e) == WithinMaxDistance(e[1], max_distance)
  IN
  IF max_distance # None /\ ~IsNumber(max_distance) /\ sector # <<>>
  THEN Raised("TypeError", <<"receiver.json", "aircraft.json">>)
  ELSE
  LET directional_aircraft ==
        Take(SortByDistance(SelectSeq(Map(sector, Measured), Kept)), count.int)
  IN
  IF directional_aircraft = <<>>
  THEN Outcome("NoAircraft", <<>>, <<"receiver.json", "aircraft.json">>)
  ELSE Outcome("Listing", directional_aircraft, <<"receiver.json", "aircraft.json">>)

----------------------------------------------------------------------------
(* get_aircraft_data *)

\* A dict, as opposed to a number, a string or None.
IsDict(v) == DOMAIN v \cap {"int", "float", "str", "none"} = {}

DefaultMinAlt == 0
DefaultMaxAlt == 50000

DistanceFilterExclusive(ac, max_dist) ==
  Milli(Get(ac, "r_dst", PyInt(0))) < Milli(max_dist)

DistanceFilterSkippingAbsent(ac, max_dist) ==
  "r_dst" \in DOMAIN ac /\ Milli(ac.r_dst) <= Milli(max_dist)

\* a.get("r_dst", 0) <= max_dist
DistanceFilter(ac, max_dist) == Milli(Get(ac, "r_dst", PyInt(0))) <= Milli(max_dist)

AltitudeFilterSkippingAbsent(ac, min_alt, max_alt) ==
  /\ "alt_baro" \in DOMAIN ac
  /\ Milli(min_alt) <= Milli(ac.alt_baro)
  /\ Milli(ac.alt_baro) <= Milli(max_alt)

\* min_alt <= a.get("alt_baro", 0) <= max_alt
AltitudeFilter(ac, min_alt, max_alt) ==
  /\ Milli(min_alt) <= Milli(Get(ac, "alt_baro", PyInt(0)))
  /\ Milli(Get(ac, "alt_baro", PyInt(0))) <= Milli(max_alt)

\* The chained comparison raises TypeError on a bound that is no number; the
\* upper bound is only looked at when the lower comparison is true.
AltitudeFilterRaises(ac, min_alt, max_alt) ==
  \/ ~IsNumber(min_alt)
  \/ /\ Milli(min_alt) <= Milli(Get(ac, "alt_baro", PyInt(0)))
     /\ ~IsNumber(max_alt)

summary == <<"s", "u", "m", "m", "a", "r", "y">>

_get_aircraft_data(a, aircraft) ==
  IF _fetch_json_raises(aircraft) THEN Raised("HTTPError", <<"aircraft.json">>)
  ELSE
  LET data == _fetch_json(aircraft)
      aircraft_list == Get(data, "aircraft", <<>>)
  IN
  IF "filter_distance" \in DOMAIN a /\ ~IsNumber(a.filter_distance)
     /\ aircraft_list # <<>>
  THEN Raised("TypeError", <<"aircraft.json">>)
  ELSE
  LET NearEnough(ac) == DistanceFilter(ac, a.filter_distance)
      by_distance ==
        IF "filter_distance" \in DOMAIN a
        THEN SelectSeq(aircraft_list, NearEnough)
        ELSE aircraft_list
  IN
  IF "filter_altitude" \in DOMAIN a /\ ~IsDict(a.filter_altitude)
  THEN Raised("AttributeError", <<"aircraft.json">>)
  ELSE
  LET alt_filter == Get(a, "filter_altitude", <<>>)
      min_alt == Get(alt_filter, "min", PyInt(DefaultMinAlt))
      max_alt == Get(alt_filter, "max", PyInt(DefaultMaxAlt))
      InBand(ac) == AltitudeFilter(ac, min_alt, max_alt)
  IN
  IF /\ "filter_altitude" \in DOMAIN a
     /\ \E i \in 1..Len(by_distance) :
          AltitudeFilterRaises(by_distance[i], min_alt, max_alt)
  THEN Raised("TypeError", <<"aircraft.json">>)
  ELSE
  LET by_altitude ==
        IF "filter_altitude" \in DOMAIN a
        THEN SelectSeq(by_distance, InBand)
        ELSE by_distance
      format_type == Get(a, "format", PyStr(<<"j", "s", "o", "n">>))
  IN
  IF format_type = PyStr(summary)
  THEN Outcome("Summary", by_altitude, <<"aircraft.json">>)
  ELSE Outcome("Json", by_altitude, <<"aircraft.json">>)

----------------------------------------------------------------------------
(* get_receiver_stats *)

_get_receiver_stats(a, stats) ==
  IF _fetch_json_raises(stats) THEN Raised("HTTPError", <<"stats.json">>)
  ELSE
  IF Get(a, "format", PyStr(summary)) = PyStr(summary)
  THEN Outcome("StatsSummary", <<>>, <<"stats.json">>)
  ELSE Outcome("StatsJson", <<>>, <<"stats.json">>)

----------------------------------------------------------------------------
(* search_aircraft *)

callsign == <<"c", "a", "l", "l", "s", "i", "g", "n">>
hex == <<"h", "e", "x">>
flight == <<"f", "l", "i", "g", "h", "t">>
any == <<"a", "n", "y">>

valid_search_types == <<PyStr(callsign), PyStr(hex), PyStr(flight), PyStr(any)>>

\* query in aircraft.get("flight", "").strip().upper()
FlightMatches(ac, query) ==
  Contains(upper(strip(Get(ac, "flight", PyStr(<<>>)).str)), query)

HexMatchesAsWritten(ac, query) == Contains(Get(ac, "hex", PyStr(<<>>)).str, query)

\* query in aircraft.get("hex", "").upper()
HexMatches(ac, query) == Contains(upper(Get(ac, "hex", PyStr(<<>>)).str), query)

SearchStepWithoutFlightBranch(ac, query, search_type) ==
  IF search_type \in {PyStr(callsign), PyStr(any)} /\ FlightMatches(ac, query)
  THEN <<ac>>
  ELSE IF search_type \in {PyStr(hex), PyStr(any)} /\ HexMatches(ac, query)
  THEN <<ac>>
  ELSE <<>>

SearchStepWithoutContinue(ac, query, search_type) ==
  (IF search_type \in {PyStr(callsign), PyStr(any)} /\ FlightMatches(ac, query)
   THEN <<ac>> ELSE <<>>)
  \o (IF search_type \in {PyStr(hex), PyStr(any)} /\ HexMatches(ac, query)
      THEN <<ac>> ELSE <<>>)
  \o (IF search_type \in {PyStr(flight), PyStr(any)} /\ FlightMatches(ac, query)
      THEN <<ac>> ELSE <<>>)

\* The body of the loop at lines 380-393: what one aircraft appends to matches.
SearchStep(ac, query, search_type) ==
  IF search_type \in {PyStr(callsign), PyStr(any)} /\ FlightMatches(ac, query)
  THEN <<ac>>
  ELSE IF search_type \in {PyStr(hex), PyStr(any)} /\ HexMatches(ac, query)
  THEN <<ac>>
  ELSE IF search_type \in {PyStr(flight), PyStr(any)} /\ FlightMatches(ac, query)
  THEN <<ac>>
  ELSE <<>>

RECURSIVE SearchLoop(_, _, _)
SearchLoop(aircraft_list, query, search_type) ==
  IF aircraft_list = <<>> THEN <<>>
  ELSE SearchStep(Head(aircraft_list), query, search_type)
         \o SearchLoop(Tail(aircraft_list), query, search_type)

\* not query
EmptyQuery(query) == query = <<>>

InvalidSearchTypeAnyString(search_type) == ~IsStr(search_type)

\* search_type not in valid_search_types
InvalidSearchType(search_type) == ~InList(search_type, valid_search_types)

_search_aircraft(a, aircraft) ==
  IF "query" \notin DOMAIN a THEN Raised("KeyError", <<>>)
  ELSE IF ~IsStr(a.query) THEN Raised("AttributeError", <<>>)
  ELSE
  LET query == strip(upper(a.query.str)) IN
  IF EmptyQuery(query) THEN Outcome("EmptyQuery", <<>>, <<>>)
  ELSE
  LET search_type == Get(a, "search_type", PyStr(any)) IN
  IF InvalidSearchType(search_type) THEN Outcome("InvalidSearchType", <<>>, <<>>)
  ELSE
  IF _fetch_json_raises(aircraft) THEN Raised("HTTPError", <<"aircraft.json">>)
  ELSE
  LET aircraft_list == Get(_fetch_json(aircraft), "aircraft", <<>>)
      matches == SearchLoop(aircraft_list, query, search_type)
  IN
  IF matches = <<>> THEN Outcome("NoAircraft", <<>>, <<"aircraft.json">>)
  ELSE Outcome("Listing", matches, <<"aircraft.json">>)

----------------------------------------------------------------------------
(* get_range_statistics *)

RangeLinesLast15UnderTotal(receiver_data, stats_data) ==
  (IF "lat" \in DOMAIN receiver_data /\ "lon" \in DOMAIN receiver_data
   THEN <<<<"Receiver Location", receiver_data.lat, receiver_data.lon>>>>
   ELSE <<>>)
  \o (IF "total" \in DOMAIN stats_data /\ "max_distance" \in DOMAIN stats_data.total
      THEN <<<<"Max Range", stats_data.total.max_distance>>>>
           \o (IF /\ "last15min" \in DOMAIN stats_data
                  /\ "max_distance" \in DOMAIN stats_data.last15min
               THEN <<<<"Last 15 Minutes Max Range", stats_data.last15min.max_distance>>>>
               ELSE <<>>)
      ELSE <<>>)

\* The lines of the summary after its heading, in order.
RangeLines(receiver_data, stats_data) ==
  (IF "lat" \in DOMAIN receiver_data /\ "lon" \in DOMAIN receiver_data
   THEN <<<<"Receiver Location", receiver_data.lat, receiver_data.lon>>>>
   ELSE <<>>)
  \o (IF "total" \in DOMAIN stats_data /\ "max_distance" \in DOMAIN stats_data.total
      THEN <<<<"Max Range", stats_data.total.max_distance>>>>
      ELSE <<>>)
  \o (IF /\ "last15min" \in DOMAIN stats_data
         /\ "max_distance" \in DOMAIN stats_data.last15min
      THEN <<<<"Last 15 Minutes Max Range", stats_data.last15min.max_distance>>>>
      ELSE <<>>)

_get_range_statistics(a, receiver, stats) ==
  IF _fetch_json_raises(receiver) THEN Raised("HTTPError", <<"receiver.json">>)
  ELSE
  IF _fetch_json_raises(stats)
  THEN Raised("HTTPError", <<"receiver.json", "stats.json">>)
  ELSE
  Outcome("RangeStatistics", RangeLines(_fetch_json(receiver), _fetch_json(stats)),
          <<"receiver.json", "stats.json">>)

----------------------------------------------------------------------------
(* The text of the responses *)

(***************************************************************************)
(* A response text is a sequence of lines. The line that opens an aircraft *)
(* entry is kept character by character; every other line is a record      *)
(* holding its label and the values printed on it.                          *)
(***************************************************************************)

Unknown == <<"U", "n", "k", "n", "o", "w", "n">>

\* str(n) for n >= 0
RECURSIVE Digits(_)
Digits(n) == IF n < 10 THEN <<Digit(n)>> ELSE Digits(n \div 10) \o <<Digit(n % 10)>>

\* f"{s:<width}" and f"{s:>width}": filled with spaces, never cut
Spaces(n) == [i \in 1..n |-> " "]
LeftAligned(s, width) == s \o Spaces(IF Len(s) < width THEN width - Len(s) ELSE 0)
RightAligned(s, width) == Spaces(IF Len(s) < width THEN width - Len(s) ELSE 0) \o s

\* f"{x:.1f}" of a computed distance or bearing, in tenths: on every value of
\* GeoTable the double prints as its thousandths rounded to the nearest tenth.
Fixed1(milli) == (milli + 50) \div 100

\* f"{x:.4f}" of the coordinates of the model
Fixed4(s) ==
  CASE s = "0.0" -> <<"0", ".", "0", "0", "0", "0">>
    [] s = "9.704295928443617" -> <<"9", ".", "7", "0", "4", "3">>
    [] s = "9.746109261186815" -> <<"9", ".", "7", "4", "6", "1">>
    [] s = "10.0" -> <<"1", "0", ".", "0", "0", "0", "0">>
    [] s = "10.295704071556383" -> <<"1", "0", ".", "2", "9", "5", "7">>
    [] s = "45.0" -> <<"4", "5", ".", "0", "0", "0", "0">>
    [] s = "45.05" -> <<"4", "5", ".", "0", "5", "0", "0">>
    [] s = "45.1" -> <<"4", "5", ".", "1", "0", "0", "0">>
    [] s = "45.2" -> <<"4", "5", ".", "2", "0", "0", "0">>
    [] s = "45.3" -> <<"4", "5", ".", "3", "0", "0", "0">>
    [] s = "45.4" -> <<"4", "5", ".", "4", "0", "0", "0">>
    [] s = "45.5" -> <<"4", "5", ".", "5", "0", "0", "0">>
    [] s = "45.6" -> <<"4", "5", ".", "6", "0", "0", "0">>
    [] s = "45.7" -> <<"4", "5", ".", "7", "0", "0", "0">>
    [] s = "45.8" -> <<"4", "5", ".", "8", "0", "0", "0">>
    [] s = "45.9" -> <<"4", "5", ".", "9", "0", "0", "0">>
    [] s = "46.0" -> <<"4", "6", ".", "0", "0", "0", "0">>
    [] s = "46.1" -> <<"4", "6", ".", "1", "0", "0", "0">>
    [] s = "46.2" -> <<"4", "6", ".", "2", "0", "0", "0">>
    [] s = "46.3" -> <<"4", "6", ".", "3", "0", "0", "0">>

\* The concatenation of a sequence of sequences.
RECURSIVE Flatten(_)
Flatten(ss) == IF ss = <<>> THEN <<>> ELSE Head(ss) \o Flatten(Tail(ss))

DisplayedCallsignUnstripped(aircraft) ==
  LET unstripped == Get(aircraft, "flight", PyStr(<<>>)).str
  IN IF unstripped = <<>> THEN Unknown ELSE unstripped

\* aircraft.get("flight", "").strip() or "Unknown"
DisplayedCallsign(aircraft) ==
  LET stripped == strip(Get(aircraft, "flight", PyStr(<<>>)).str)
  IN IF stripped = <<>> THEN Unknown ELSE stripped

\* aircraft.get("hex", "Unknown")
hex_code(aircraft) == Get(aircraft, "hex", PyStr(Unknown))

RankLineCountedFromZero(i, aircraft) ==
  Digits(i - 1) \o <<".", " ">> \o LeftAligned(DisplayedCallsign(aircraft), 10)
    \o <<" ", "(">> \o hex_code(aircraft).str \o <<")">>

\* f"{i}. {callsign:<10} ({hex_code})"
RankLine(i, aircraft) ==
  Digits(i) \o <<".", " ">> \o LeftAligned(DisplayedCallsign(aircraft), 10)
    \o <<" ", "(">> \o hex_code(aircraft).str \o <<")">>

\* f"{i + 1:2d}. {callsign:<8} ({hex_code})" for i counted from 0
SummaryRankLine(i, aircraft) ==
  RightAligned(Digits(i + 1), 2) \o <<".", " ">>
    \o LeftAligned(DisplayedCallsign(aircraft), 8)
    \o <<" ", "(">> \o hex_code(aircraft).str \o <<")">>

\* The map link line, printed if hex_code != "Unknown".
MapLink(aircraft) ==
  IF hex_code(aircraft) # PyStr(Unknown)
  THEN <<[line |-> "Map Link", icao |-> hex_code(aircraft).str]>>
  ELSE <<>>

\* Lines 560-582: the i-th entry of the closest view.
ClosestEntry(i, e) ==
  LET distance == e[1]
      aircraft == e[2]
  IN <<[line |-> "Rank", text |-> RankLine(i, aircraft)]>>
     \o MapLink(aircraft)
     \o <<[line |-> "Distance", tenths |-> Fixed1(distance)],
          [line |-> "Altitude", value |-> Get(aircraft, "alt_baro", PyStr(Unknown))],
          [line |-> "Speed", value |-> Get(aircraft, "gs", PyStr(Unknown))],
          [line |-> "Track", value |-> Get(aircraft, "track", PyStr(Unknown))],
          [line |-> "Position", lat |-> Fixed4(aircraft.lat.float),
                                lon |-> Fixed4(aircraft.lon.float)],
          [line |-> "Separator"]>>

\* Lines 665-688: the i-th entry of the by-direction view.
DirectionEntry(i, e) ==
  LET distance == e[1]
      bearing == e[2]
      aircraft == e[3]
  IN <<[line |-> "Rank", text |-> RankLine(i, aircraft)]>>
     \o MapLink(aircraft)
     \o <<[line |-> "Distance", tenths |-> Fixed1(distance)],
          [line |-> "Bearing", tenths |-> Fixed1(bearing)],
          [line |-> "Altitude", value |-> Get(aircraft, "alt_baro", PyStr(Unknown))],
          [line |-> "Speed", value |-> Get(aircraft, "gs", PyStr(Unknown))],
          [line |-> "Track", value |-> Get(aircraft, "track", PyStr(Unknown))],
          [line |-> "Position", lat |-> Fixed4(aircraft.lat.float),
                                lon |-> Fixed4(aircraft.lon.float)],
          [line |-> "Separator"]>>

\* Lines 399-417: an entry of the search view.
SearchEntry(aircraft) ==
  <<[line |-> "Callsign", text |-> DisplayedCallsign(aircraft)],
    [line |-> "Hex", text |-> hex_code(aircraft).str]>>
  \o MapLink(aircraft)
  \o <<[line |-> "Altitude", value |-> Get(aircraft, "alt_baro", PyStr(Unknown))],
       [line |-> "Position", lat |-> Get(aircraft, "lat", PyStr(Unknown)),
                             lon |-> Get(aircraft, "lon", PyStr(Unknown))],
       [line |-> "Separator"]>>

\* A text of one line that holds a message and the values printed in it.
Message(words, values) == <<[line |-> "Message", text |-> words, values |-> values]>>

Blank == [line |-> "Blank"]

\* An exception as the except clauses print it.
Exc(r) == [exc |-> r.exc]

\* The entries of the summary view are cut after this many aircraft.
SummaryCap == 10

\* Lines 297-310: the entry of the summary view for enumerate index i.
SummaryEntry(i, aircraft) ==
  <<[line |-> "Rank", text |-> SummaryRankLine(i, aircraft)]>>
  \o MapLink(aircraft)
  \o <<[line |-> "Alt, Dist",
        altitude |-> Get(aircraft, "alt_baro", PyStr(Unknown)),
        distance |-> Get(aircraft, "r_dst", PyStr(Unknown))]>>

MoreLineFromTheCap(total_aircraft) ==
  IF total_aircraft >= SummaryCap
  THEN <<[line |-> "More", n |-> total_aircraft - SummaryCap]>>
  ELSE <<>>

\* Lines 312-313: the closing line that counts the aircraft not shown.
MoreLine(total_aircraft) ==
  IF total_aircraft > SummaryCap
  THEN <<[line |-> "More", n |-> total_aircraft - SummaryCap]>>
  ELSE <<>>

\* [a for a in aircraft_list if "lat" in a], counting on the latitude alone.
WithLatitude(aircraft_list) ==
  SelectSeq(aircraft_list, LAMBDA a : "lat" \in DOMAIN a)

\* Line 289: [a for a in aircraft_list if "lat" in a and "lon" in a]
WithPosition(aircraft_list) == SelectSeq(aircraft_list, HasPosition)

_format_aircraft_summary(aircraft_list, full_data) ==
  LET total_aircraft == Len(aircraft_list)
      with_pos == Len(WithPosition(aircraft_list))
      shown == Take(aircraft_list, SummaryCap)
  IN <<[line |-> "Aircraft Summary", updated |-> Get(full_data, "now", PyStr(Unknown))],
       [line |-> "Total Aircraft", n |-> total_aircraft],
       [line |-> "With Position", n |-> with_pos],
       Blank>>
     \o (IF aircraft_list # <<>>
         THEN <<[line |-> "Recent Aircraft"]>>
              \o Flatten([i \in 1..Len(shown) |-> SummaryEntry(i - 1, shown[i])])
              \o MoreLine(total_aircraft)
         ELSE <<>>)

_format_stats_summary(stats) ==
  LET total == Get(stats, "total", <<>>)
      last1min == Get(stats, "last1min", <<>>)
  IN <<[line |-> "Receiver Statistics"], [line |-> "Rule"], Blank>>
     \o (IF DOMAIN total # {}
         THEN <<[line |-> "Total Messages", n |-> Get(total, "messages", PyInt(0))],
                [line |-> "Total Aircraft",
                 n |-> Get(total, "aircraft_with_pos", PyInt(0))]>>
         ELSE <<>>)
     \o (IF DOMAIN last1min # {}
         THEN <<Blank, [line |-> "Last Minute"],
                [line |-> "Messages", n |-> Get(last1min, "messages", PyInt(0))],
                [line |-> "Aircraft", n |-> Get(last1min, "aircraft_with_pos", PyInt(0))]>>
         ELSE <<>>)
     \o (IF "cpu" \in DOMAIN stats
         THEN <<Blank, [line |-> "System Load",
                        value |-> Get(stats.cpu, "load", PyStr(Unknown))]>>
         ELSE <<>>)

\* {max_dist * 0.000539957}, in millionths of a nautical mile (whole millionths)
NauticalMiles(meters) ==
  (meters.int \div 1000) * 539957 + ((meters.int % 1000) * 539957) \div 1000

ClosestText(a, receiver, r) ==
  CASE r.kind = "InvalidCount" ->
         Message("Invalid count parameter. Must be an integer between 1 and 50", <<>>)
    [] r.kind = "NoReceiverLocation" ->
         Message("Error: Receiver location cannot be determined from feeder data", <<>>)
    [] r.kind = "NoAircraft" ->
         IF Truthy(Get(a, "max_distance", None))
         THEN Message("No aircraft found within {} nautical miles of the feeder",
                      <<a.max_distance>>)
         ELSE Message("No aircraft found near the feeder at this time", <<>>)
    [] r.kind = "Exception" -> Message("Error getting closest aircraft: {}", <<Exc(r)>>)
    [] r.kind = "Listing" ->
         <<[line |-> "Closest", n |-> Len(r.entries),
            lat |-> Fixed4(receiver.json.lat.float),
            lon |-> Fixed4(receiver.json.lon.float)],
           Blank>>
         \o Flatten([i \in 1..Len(r.entries) |-> ClosestEntry(i, r.entries[i])])

DirectionText(a, receiver, r) ==
  CASE r.kind = "InvalidDirection" ->
         Message("Invalid direction '{}'. Valid directions are: {}",
                 <<PyStr(lower(a.direction.str))>>)
    [] r.kind = "InvalidCount" ->
         Message("Invalid count parameter. Must be an integer between 1 and 50", <<>>)
    [] r.kind = "NoReceiverLocation" ->
         Message("Error: Receiver location cannot be determined from feeder data", <<>>)
    [] r.kind = "NoAircraft" ->
         IF Truthy(Get(a, "max_distance", None))
         THEN Message("No aircraft found to the {} within {} nautical miles of the feeder",
                      <<PyStr(lower(a.direction.str)), a.max_distance>>)
         ELSE Message("No aircraft found to the {} of the feeder at this time",
                      <<PyStr(lower(a.direction.str))>>)
    [] r.kind = "Exception" ->
         Message("Error getting aircraft by direction: {}", <<Exc(r)>>)
    [] r.kind = "Listing" ->
         <<[line |-> "Aircraft to the", direction |-> lower(a.direction.str),
            lat |-> Fixed4(receiver.json.lat.float),
            lon |-> Fixed4(receiver.json.lon.float)],
           Blank, [line |-> "Found", n |-> Len(r.entries)], Blank>>
         \o Flatten([i \in 1..Len(r.entries) |-> DirectionEntry(i, r.entries[i])])

SearchText(a, r) ==
  CASE r.kind = "EmptyQuery" -> Message("Search query cannot be empty", <<>>)
    [] r.kind = "InvalidSearchType" ->
         Message("Invalid search_type '{}'. Valid types are: {}", <<a.search_type>>)
    [] r.kind = "NoAircraft" ->
         Message("No aircraft found matching '{}' with search type '{}'",
                 <<PyStr(strip(upper(a.query.str))), Get(a, "search_type", PyStr(any))>>)
    [] r.kind = "Exception" -> Message("Error searching aircraft: {}", <<Exc(r)>>)
    [] r.kind = "Listing" ->
         <<[line |-> "Found", n |-> Len(r.entries),
            query |-> strip(upper(a.query.str))],
           Blank>>
         \o Flatten([i \in 1..Len(r.entries) |-> SearchEntry(r.entries[i])])

AircraftDataText(aircraft, r) ==
  CASE r.kind = "Exception" -> Message("Error fetching aircraft data: {}", <<Exc(r)>>)
    [] r.kind = "Summary" -> _format_aircraft_summary(r.entries, aircraft.json)
    [] r.kind = "Json" ->
         <<[line |-> "Json", document |-> [aircraft |-> r.entries] @@ aircraft.json]>>

ReceiverStatsText(stats, r) ==
  CASE r.kind = "Exception" -> Message("Error fetching stats: {}", <<Exc(r)>>)
    [] r.kind = "StatsSummary" -> _format_stats_summary(stats.json)
    [] r.kind = "StatsJson" -> <<[line |-> "Json", document |-> stats.json]>>

RangeStatisticsText(r) ==
  CASE r.kind = "Exception" -> Message("Error fetching range statistics: {}", <<Exc(r)>>)
    [] r.kind = "RangeStatistics" ->
         <<[line |-> "Range Statistics"], [line |-> "Rule"], Blank>>
         \o [i \in 1..Len(r.entries) |->
               IF r.entries[i][1] = "Receiver Location"
               THEN [line |-> "Receiver Location",
                     lat |-> Fixed4(r.entries[i][2].float),
                     lon |-> Fixed4(r.entries[i][3].float)]
               ELSE [line |-> r.entries[i][1], meters |-> r.entries[i][2],
                     nautical_miles |-> NauticalMiles(r.entries[i][2])]]

\* The text of the response handle_call_tool returns.
Text(name, a, receiver, aircraft, stats, r) ==
  CASE name = "get_aircraft_data" -> AircraftDataText(aircraft, r)
    [] name = "get_receiver_stats" -> ReceiverStatsText(stats, r)
    [] name = "search_aircraft" -> SearchText(a, r)
    [] name = "get_range_statistics" -> RangeStatisticsText(r)
    [] name = "get_closest_aircraft" -> ClosestText(a, receiver, r)
    [] name = "get_aircraft_by_direction" -> DirectionText(a, receiver, r)
    [] OTHER -> Message("Error: Unknown tool: {}", <<[tool |-> name]>>)

----------------------------------------------------------------------------
(* handle_call_tool *)

ToolNames ==
  {"get_aircraft_data", "get_receiver_stats", "search_aircraft",
   "get_range_statistics", "get_closest_aircraft", "get_aircraft_by_direction"}

\* The dispatch with a handler, not an error, for every other name.
handle_call_tool_with_default_handler(name, a, receiver, aircraft, stats) ==
  CASE name = "get_aircraft_data" -> _get_aircraft_data(a, aircraft)
    [] name = "search_aircraft" -> _search_aircraft(a, aircraft)
    [] name = "get_range_statistics" -> _get_range_statistics(a, receiver, stats)
    [] name = "get_closest_aircraft" -> _get_closest_aircraft(a, receiver, aircraft)
    [] name = "get_aircraft_by_direction" ->
         _get_aircraft_by_direction(a, receiver, aircraft)
    [] OTHER -> _get_receiver_stats(a, stats)

handle_call_tool(name, a, receiver, aircraft, stats) ==
  CASE name = "get_aircraft_data" -> _get_aircraft_data(a, aircraft)
    [] name = "get_receiver_stats" -> _get_receiver_stats(a, stats)
    [] name = "search_aircraft" -> _search_aircraft(a, aircraft)
    [] name = "get_range_statistics" -> _get_range_statistics(a, receiver, stats)
    [] name = "get_closest_aircraft" -> _get_closest_aircraft(a, receiver, aircraft)
    [] name = "get_aircraft_by_direction" ->
         _get_aircraft_by_direction(a, receiver, aircraft)
    [] OTHER ->
         [result |-> [kind |-> "UnknownTool", exc |-> "ValueError", entries |-> <<>>],
          fetched |-> <<>>]

----------------------------------------------------------------------------
(* The environment: what the feeder serves and what callers pass *)

A1 ==
  [hex |-> PyStr(<<"a", "1">>), flight |-> PyStr(<<"K", "L", "A", " ">>),
   lat |-> PyFloat("45.5"), lon |-> PyFloat("9.704295928443617"),
   alt_baro |-> PyInt(20000), r_dst |-> PyFloat("32.518")]
B2 ==
  [hex |-> PyStr(<<"b", "2">>),
   lat |-> PyFloat("46.0"), lon |-> PyFloat("9.746109261186815"),
   alt_baro |-> PyInt(5000), r_dst |-> PyFloat("60.984"),
   gs |-> PyInt(450), track |-> PyInt(170)]
A3 ==
  [hex |-> PyStr(<<"a", "3">>), flight |-> PyStr(<<" ", " ">>),
   lat |-> PyFloat("45.5"), lon |-> PyFloat("10.295704071556383")]
C4 ==
  [hex |-> PyStr(<<"c", "4">>), flight |-> PyStr(<<"A", "B">>),
   lat |-> PyFloat("0.0"), lon |-> PyFloat("10.0"),
   alt_baro |-> PyInt(60000), r_dst |-> PyFloat("2701.821")]
D5 == [hex |-> PyStr(<<"d", "5">>), lat |-> PyFloat("45.5"), alt_baro |-> PyInt(0)]
E6 == [flight |-> PyStr(<<"a", "1">>)]
C7 == [hex |-> PyStr(<<"c", "7">>), lon |-> PyFloat("10.0"), alt_baro |-> PyInt(3000)]

AircraftPool == {A1, B2, A3, C4, D5, E6, C7}

\* Aircraft lists: up to MaxAircraft different aircraft in any order.
Snapshots ==
  {s \in UNION {[1..n -> AircraftPool] : n \in 0..MaxAircraft} :
     \A i, j \in 1..Len(s) : i # j => s[i] # s[j]}

ReceiverEndpoints ==
  {Failing,
   Ok([lat |-> PyFloat("45.0")]),
   Ok([lon |-> PyFloat("10.0")]),
   Ok([lat |-> PyFloat("0.0"), lon |-> PyFloat("0.0")]),
   Ok([lat |-> PyFloat("0.0"), lon |-> PyFloat("10.0")]),
   Ok([lat |-> PyFloat("45.0"), lon |-> PyFloat("0.0")]),
   Ok([lat |-> PyFloat("45.0"), lon |-> PyFloat("10.0")])}

\* A busy sky: aircraft due north of latitude 45, longitude 10, every second one
\* with a flight, an altitude, a speed and a track, every fourth with an empty
\* flight. The feeder lists them in no particular order.
BusyLatitudes ==
  <<"45.7", "45.2", "46.1", "45.4", "45.9", "45.1", "46.2", "45.6", "45.3", "45.8",
    "46.3", "45.05">>

BusyAircraft(i) ==
  LET position ==
        [hex |-> PyStr(<<"f", Digit(i \div 10), Digit(i % 10)>>),
         lat |-> PyFloat(BusyLatitudes[i]), lon |-> PyFloat("10.0")]
  IN IF i % 2 = 1
     THEN position @@ [flight |-> PyStr(<<"B", "A", Digit(i \div 10), Digit(i % 10)>>),
                       alt_baro |-> PyInt(1000 * i), gs |-> PyInt(400 + i),
                       track |-> PyInt(180)]
     ELSE IF i % 4 = 0 THEN position @@ [flight |-> PyStr(<<>>)]
     ELSE position

BusySnapshots ==
  {[i \in 1..n |-> BusyAircraft(i)] : n \in {10, 11, Len(BusyLatitudes)}}

AircraftEndpoints ==
  {Failing, Ok(<<>>)} \cup {Ok([aircraft |-> s]) : s \in Snapshots \cup BusySnapshots}

StatsEndpoints ==
  {Failing,
   Ok(<<>>),
   Ok([total |-> <<>>]),
   Ok([total |-> [max_distance |-> PyInt(250000)]]),
   Ok([last15min |-> [max_distance |-> PyInt(100000)]]),
   Ok([total |-> [max_distance |-> PyInt(250000)], last15min |-> <<>>]),
   Ok([total |-> [max_distance |-> PyInt(250000)],
       last15min |-> [max_distance |-> PyInt(100000)]])}

\* What the endpoints serve while no call is looking at them.
QuietReceiver == Ok([lat |-> PyFloat("45.0"), lon |-> PyFloat("10.0")])
QuietAircraft == Ok([aircraft |-> <<>>])
QuietStats == Ok(<<>>)

\* The documents {} and {k: v} for v in values.
Optional(k, values) == {<<>>} \cup {k :> v : v \in values}

ClosestArgs ==
  {c @@ m :
     c \in Optional("count", {PyInt(0), PyInt(1), PyInt(2), PyInt(12), PyInt(51),
                              PyFloat("2.5"), PyStr(<<"5">>)}),
     m \in Optional("max_distance", {PyInt(0), PyFloat("32.518312491034806"),
                                     PyStr(<<"f", "a", "r">>)})}

DirectionArgs ==
  {d @@ c @@ m :
     d \in Optional("direction",
                    {PyStr(n) : n \in {north, south, east, west, northeast, northwest,
                                       southeast, southwest, <<"E", "A", "S", "T">>,
                                       <<"u", "p">>}}),
     c \in Optional("count", {PyInt(0), PyInt(1), PyInt(50), PyInt(51)}),
     m \in Optional("max_distance", {PyInt(40)})}

AircraftDataArgs ==
  {d @@ h @@ f :
     d \in Optional("filter_distance", {PyInt(0), PyInt(40), PyFloat("60.984"),
                                        PyStr(<<"f", "a", "r">>)}),
     h \in Optional("filter_altitude",
                    {[min |-> PyInt(0), max |-> PyInt(10000)], [min |-> PyInt(1000)],
                     [max |-> PyInt(10000)], PyStr(<<"l", "o", "w">>)}),
     f \in Optional("format", {PyStr(summary)})}

SearchArgs ==
  {q @@ t :
     q \in Optional("query", {PyStr(<<>>), PyStr(<<" ">>), PyStr(<<"a", "1">>),
                              PyStr(<<"a">>), PyStr(<<" ", "k", "l">>), PyStr(<<"x">>)}),
     t \in Optional("search_type", {PyStr(callsign), PyStr(hex), PyStr(flight),
                                    PyStr(any), PyStr(<<"t", "a", "i", "l">>)})}

StatsArgs == Optional("format", {PyStr(summary), PyStr(<<"j", "s", "o", "n">>)})

\* Valid points: observers, served positions, the poles, the antimeridian
\* from both sides, a point of the southern hemisphere and an antipode.
Points ==
  {[lat |-> PyFloat(p[1]), lon |-> PyFloat(p[2])] :
     p \in {<<"45.0", "10.0">>, <<"0.0", "0.0">>, <<"0.0", "10.0">>, <<"45.0", "0.0">>,
             <<"45.5", "9.704295928443617">>, <<"46.0", "9.746109261186815">>,
             <<"45.5", "10.295704071556383">>,
             <<"90.0", "0.0">>, <<"-90.0", "0.0">>, <<"0.0", "180.0">>,
             <<"0.0", "-180.0">>, <<"-33.9", "151.2">>, <<"-45.0", "-170.0">>}}

DirectionNames == {north, south, east, west, northeast, northwest, southeast, southwest}

----------------------------------------------------------------------------
(* The server *)

NoResult == [kind |-> "None", exc |-> "", entries |-> <<>>]

\* The configuration file: absent, holding a JSON document, or holding text
\* that json.load cannot parse.
Absent == [exists |-> FALSE]
Holding(doc) == [exists |-> TRUE, parses |-> TRUE, json |-> doc]

\* The attributes the constructor gives the server, for the default base URL.
__init__ ==
  [base_url |-> "http://ultrafeeder",
   api_port |-> 80, json_port |-> 30047, web_port |-> 8080,
   api_base |-> "http://ultrafeeder:80/data",
   json_base |-> "http://ultrafeeder:30047",
   web_base |-> "http://ultrafeeder:8080"]

\* No call is being handled in a slot.
Idle == [state |-> "idle"]

\* The calls that can be in flight at once.
Slots == 1..MaxInFlight

Init ==
  /\ pc = "idle"
  /\ tool = ""
  /\ args = <<>>
  /\ receiver_json = QuietReceiver
  /\ aircraft_json = QuietAircraft
  /\ stats_json = QuietStats
  /\ fetched = <<>>
  /\ result = NoResult
  /\ text = <<>>
  /\ self = __init__
  /\ in_flight = [q \in Slots |-> Idle]
  /\ earlier = {}
  /\ config_file = Absent
  /\ setup = [pc |-> "ready"]

\* One call of handle_call_tool, from the request to the returned response.
Call(name, a, receiver, aircraft, stats) ==
  /\ pc' = "done"
  /\ tool' = name
  /\ args' = a
  /\ receiver_json' = receiver
  /\ aircraft_json' = aircraft
  /\ stats_json' = stats
  /\ LET out == handle_call_tool(name, a, receiver, aircraft, stats)
     IN /\ result' = out.result
        /\ fetched' = out.fetched
        /\ text' = Text(name, a, receiver, aircraft, stats, out.result)
  /\ UNCHANGED <<serving, installing>>

GetClosestAircraft ==
  /\ pc = "idle"
  /\ \E a \in ClosestArgs, receiver \in ReceiverEndpoints, aircraft \in AircraftEndpoints :
       Call("get_closest_aircraft", a, receiver, aircraft, QuietStats)

GetAircraftByDirection ==
  /\ pc = "idle"
  /\ \E a \in DirectionArgs, receiver \in ReceiverEndpoints, aircraft \in AircraftEndpoints :
       Call("get_aircraft_by_direction", a, receiver, aircraft, QuietStats)

GetAircraftData ==
  /\ pc = "idle"
  /\ \E a \in AircraftDataArgs, aircraft \in AircraftEndpoints :
       Call("get_aircraft_data", a, QuietReceiver, aircraft, QuietStats)

SearchAircraft ==
  /\ pc = "idle"
  /\ \E a \in SearchArgs, aircraft \in AircraftEndpoints :
       Call("search_aircraft", a, QuietReceiver, aircraft, QuietStats)

GetRangeStatistics ==
  /\ pc = "idle"
  /\ \E receiver \in ReceiverEndpoints, stats \in StatsEndpoints :
       Call("get_range_statistics", <<>>, receiver, QuietAircraft, stats)

GetReceiverStats ==
  /\ pc = "idle"
  /\ \E a \in StatsArgs, stats \in StatsEndpoints :
       Call("get_receiver_stats", a, QuietReceiver, QuietAircraft, stats)

UnknownTool ==
  /\ pc = "idle"
  /\ Call("get_weather", <<>>, QuietReceiver, QuietAircraft, QuietStats)

\* _get_direction_range called on its own, with any name.
GetDirectionRange ==
  /\ pc = "idle"
  /\ \E name \in DirectionNames \cup {<<"u", "p">>, <<"N", "o", "r", "t", "h">>} :
    /\ pc' = "done"
    /\ tool' = "_get_direction_range"
    /\ args' = [direction |-> PyStr(name)]
    /\ result' = [kind |-> "Returned", exc |-> "", entries |-> _get_direction_range(name)]
    /\ text' = <<>>
    /\ UNCHANGED <<receiver_json, aircraft_json, stats_json, fetched>>
    /\ UNCHANGED <<serving, installing>>

\* _calculate_distance called on its own, with any two points.
CalculateDistance ==
  /\ pc = "idle"
  /\ \E p1 \in Points, p2 \in Points :
    /\ pc' = "done"
    /\ tool' = "_calculate_distance"
    /\ args' = [p1 |-> p1, p2 |-> p2]
    /\ result' = [kind |-> "Returned", exc |-> "",
                  entries |-> <<_calculate_distance(p1.lat, p1.lon, p2.lat, p2.lon),
                                _calculate_distance_1e9(p1.lat, p1.lon, p2.lat, p2.lon)>>]
    /\ text' = <<>>
    /\ UNCHANGED <<receiver_json, aircraft_json, stats_json, fetched>>
    /\ UNCHANGED <<serving, installing>>

\* _calculate_bearing called on its own, with any two points.
CalculateBearing ==
  /\ pc = "idle"
  /\ \E p1 \in Points, p2 \in Points :
    /\ pc' = "done"
    /\ tool' = "_calculate_bearing"
    /\ args' = [p1 |-> p1, p2 |-> p2]
    /\ result' = [kind |-> "Returned", exc |-> "",
                  entries |-> <<_calculate_bearing(p1.lat, p1.lon, p2.lat, p2.lon)>>]
    /\ text' = <<>>
    /\ UNCHANGED <<receiver_json, aircraft_json, stats_json, fetched>>
    /\ UNCHANGED <<serving, installing>>

\* The response has been delivered; the server waits for the next call.
Respond ==
  /\ pc = "done"
  /\ pc' = "idle"
  /\ tool' = ""
  /\ args' = <<>>
  /\ receiver_json' = QuietReceiver
  /\ aircraft_json' = QuietAircraft
  /\ stats_json' = QuietStats
  /\ fetched' = <<>>
  /\ result' = NoResult
  /\ text' = <<>>
  /\ UNCHANGED <<serving, installing>>

Next ==
  \/ GetClosestAircraft
  \/ GetAircraftByDirection
  \/ GetAircraftData
  \/ SearchAircraft
  \/ GetRangeStatistics
  \/ GetReceiverStats
  \/ UnknownTool
  \/ GetDirectionRange
  \/ CalculateDistance
  \/ CalculateBearing
  \/ Respond

Spec == Init /\ [][Next]_vars

----------------------------------------------------------------------------
(* Several calls in flight *)

\* handle_call_tool is a coroutine: a call runs until it awaits a request to
\* the feeder, other calls run while it waits, and it resumes with the document
\* the request returned.  A call's locals are its name, its arguments and the
\* documents returned to it so far.

EndpointNames == {"receiver.json", "aircraft.json", "stats.json"}

NotFetched == [status |-> "none"]

\* The handler run on the documents a call holds; a request it has not made
\* yet stands as one that has not returned.
Resume(name, a, got) ==
  LET Held(e) == IF got[e] = NotFetched THEN Failing ELSE got[e]
  IN handle_call_tool(name, a, Held("receiver.json"), Held("aircraft.json"),
                      Held("stats.json"))

\* The endpoint whose request a call is suspended on, "" when it has none left.
Awaited(name, a, got) ==
  LET log == Resume(name, a, got).fetched
  IN IF log # <<>> /\ got[log[Len(log)]] = NotFetched THEN log[Len(log)] ELSE ""

\* _fetch_json with a cache of documents among the attributes of the server.
FetchedFromCache(endpoint, response) ==
  LET cache == IF "cache" \in DOMAIN self THEN self.cache ELSE [e \in EndpointNames |-> NotFetched]
      data == IF cache[endpoint] = NotFetched THEN response ELSE cache[endpoint]
  IN [data |-> data,
      self |-> [k \in DOMAIN self \cup {"cache"} |->
                  IF k = "cache" THEN [cache EXCEPT ![endpoint] = data] ELSE self[k]]]
\* _fetch_json keeping the last response among the attributes of the server.
FetchedAndKept(endpoint, response) ==
  [data |-> response,
   self |-> [k \in DOMAIN self \cup {"last_response"} |->
               IF k = "last_response" THEN response ELSE self[k]]]
\* What _fetch_json hands back to its caller, and the attributes of the server
\* it leaves: a new client per request, the response of that request, nothing
\* kept.
Fetched(endpoint, response) == [data |-> response, self |-> self]

\* How a call ended, as later calls could tell.
Ending(r) ==
  IF r.kind = "Exception" /\ r.exc = "HTTPError" THEN "fetch failure"
  ELSE IF r.kind \in {"InvalidCount", "InvalidDirection", "EmptyQuery",
                      "InvalidSearchType", "NoReceiverLocation", "UnknownTool"}
       \/ r.kind = "Exception"
  THEN "validation error"
  ELSE "answered"

\* What callers ask while other calls are in flight, and what the feeder serves
\* them.
CallsInFlight ==
  {[name |-> "get_closest_aircraft", args |-> <<>>],
   [name |-> "get_closest_aircraft", args |-> [count |-> PyInt(0)]],
   [name |-> "get_aircraft_by_direction", args |-> [direction |-> PyStr(north)]],
   [name |-> "search_aircraft", args |-> [query |-> PyStr(<<"a", "1">>)]],
   [name |-> "get_range_statistics", args |-> <<>>],
   [name |-> "get_weather", args |-> <<>>]}

ServedInFlight(endpoint) ==
  CASE endpoint = "receiver.json" ->
         {Failing, Ok([lat |-> PyFloat("45.0"), lon |-> PyFloat("10.0")])}
    [] endpoint = "aircraft.json" ->
         {Failing, Ok([aircraft |-> <<A1, B2>>]), Ok([aircraft |-> <<B2>>])}
    [] endpoint = "stats.json" ->
         {Failing, Ok([total |-> [max_distance |-> PyInt(250000)]])}

\* A call arrives and runs up to its first request.
Accept(q) ==
  /\ in_flight[q] = Idle
  /\ \E c \in CallsInFlight :
       in_flight' = [in_flight EXCEPT ![q] =
         [state |-> "running", name |-> c.name, args |-> c.args,
          got |-> [e \in EndpointNames |-> NotFetched], delivered |-> [e \in EndpointNames |-> NotFetched], requested |-> <<>>]]
  /\ UNCHANGED <<self, earlier, calling, installing>>

\* The request a call awaits returns, and the call runs up to its next one.
Deliver(q) ==
  /\ in_flight[q].state = "running"
  /\ LET c == in_flight[q]
         endpoint == Awaited(c.name, c.args, c.got)
     IN /\ endpoint # ""
        /\ \E response \in ServedInFlight(endpoint) :
             LET f == Fetched(endpoint, response)
             IN /\ in_flight' = [in_flight EXCEPT ![q] =
                     [c EXCEPT !.got[endpoint] = f.data,
                               !.delivered[endpoint] = response,
                               !.requested = Append(@, <<self.api_base, endpoint>>)]]
                /\ self' = f.self
  /\ UNCHANGED <<earlier, calling, installing>>

\* A call with no request left returns its response.
Return(q) ==
  /\ in_flight[q].state = "running"
  /\ LET c == in_flight[q]
         out == Resume(c.name, c.args, c.got)
     IN /\ Awaited(c.name, c.args, c.got) = ""
        /\ in_flight' = [in_flight EXCEPT ![q] =
             [state |-> "returned", name |-> c.name, args |-> c.args,
              got |-> c.got, delivered |-> c.delivered, requested |-> c.requested,
              result |-> out.result,
              text |-> Text(c.name, c.args, c.got["receiver.json"],
                            c.got["aircraft.json"], c.got["stats.json"], out.result)]]
  /\ UNCHANGED <<self, earlier, calling, installing>>

\* The response has been delivered; the slot is free for the next call.
Forget(q) ==
  /\ in_flight[q].state = "returned"
  /\ in_flight' = [in_flight EXCEPT ![q] = Idle]
  /\ earlier' = earlier \cup {Ending(in_flight[q].result)}
  /\ UNCHANGED <<self, calling, installing>>

NextInFlight ==
  \E q \in Slots :
    \/ Accept(q)
    \/ Deliver(q)
    \/ Return(q)
    \/ Forget(q)

SpecInFlight == Init /\ [][NextInFlight]_vars

----------------------------------------------------------------------------
(* The configuration setup script *)

\* JSON values as Python holds them: an object is a dict, with exactly the keys
\* present; every other value carries its type.
JsonStr(t) == [str |-> t]
JsonList(l) == [list |-> l]
IsObject(v) == DOMAIN v \cap {"str", "list", "bool", "none", "int", "float"} = {}

\* d[k] = v
SetItem(d, k, v) == [x \in DOMAIN d \cup {k} |-> IF x = k THEN v ELSE d[x]]

create_remote_config(remote_host, remote_port) ==
  [mcpServers |->
     [readsb |->
        [command |-> JsonStr("uv"),
         args |-> JsonList(<<JsonStr("run"), JsonStr("python"),
                             JsonStr("readsb_mcp_server.py"), JsonStr("--base-url"),
                             [url |-> <<"http://", remote_host, ":", remote_port>>]>>),
         env |-> <<>>,
         disabled |-> [bool |-> FALSE],
         autoApprove |-> JsonList(<<JsonStr("get_aircraft_data"),
                                    JsonStr("get_receiver_stats"),
                                    JsonStr("search_aircraft"),
                                    JsonStr("get_range_statistics"),
                                    JsonStr("get_closest_aircraft"),
                                    JsonStr("get_aircraft_by_direction")>>)]]]

\* Lines 95-98 raise TypeError when the existing document is no object or its
\* mcpServers is no object; main does not catch it.
MergeRaises(existing_config) ==
  \/ ~IsObject(existing_config)
  \/ /\ "mcpServers" \in DOMAIN existing_config
     /\ ~IsObject(existing_config.mcpServers)

\* The merge that puts the new mcpServers in place of the existing one.
MergeReplacingServers(existing_config, config) ==
  SetItem(existing_config, "mcpServers", config.mcpServers)

\* Lines 95-100: the existing document with the readsb entry set.
Merge(existing_config, config) ==
  IF "mcpServers" \in DOMAIN existing_config
  THEN SetItem(existing_config, "mcpServers",
               SetItem(existing_config.mcpServers, "readsb", config.mcpServers.readsb))
  ELSE SetItem(existing_config, "mcpServers", config.mcpServers)

\* main: the file it leaves and how it ends.  answer is what the user types at
\* the prompt; writable tells whether the file can be opened for writing.
main(file, remote_host, remote_port, answer, writable) ==
  LET config == create_remote_config(remote_host, remote_port)
      overwrite == lower(strip(answer))
  IN
  IF file.exists /\ overwrite # <<"y">>
  THEN [file |-> file, outcome |-> "Configuration not updated."]
  ELSE IF file.exists /\ file.parses /\ MergeRaises(file.json)
  THEN [file |-> file, outcome |-> "TypeError"]
  ELSE
  LET written == IF file.exists /\ file.parses THEN Merge(file.json, config) ELSE config
  IN IF writable
     THEN [file |-> Holding(written), outcome |-> "Configuration saved"]
     ELSE [file |-> file, outcome |-> "Error saving configuration"]

\* What the user and other programs leave in the file.
OldReadsb == [command |-> JsonStr("python"), disabled |-> [bool |-> TRUE]]
OtherServer == [command |-> JsonStr("npx")]

ConfigFiles ==
  {Absent, [exists |-> TRUE, parses |-> FALSE]}
  \cup {Holding(doc) :
          doc \in {<<>>,
                   [theme |-> JsonStr("dark")],
                   [mcpServers |-> <<>>],
                   [mcpServers |-> [readsb |-> OldReadsb]],
                   [mcpServers |-> [filesystem |-> OtherServer]],
                   [mcpServers |-> [readsb |-> OldReadsb, filesystem |-> OtherServer]],
                   [theme |-> JsonStr("dark"), mcpServers |-> [filesystem |-> OtherServer]],
                   [theme |-> JsonStr("dark"),
                    mcpServers |-> [readsb |-> OldReadsb, filesystem |-> OtherServer]],
                   JsonList(<<>>),
                   [none |-> TRUE],
                   [mcpServers |-> [none |-> TRUE]],
                   [theme |-> JsonStr("dark"), mcpServers |-> JsonList(<<>>)]}}


\* Another program, or the user, rewrites the configuration file.
EditConfigFile ==
  /\ setup.pc = "ready"
  /\ \E file \in ConfigFiles :
       /\ file # config_file
       /\ config_file' = file
  /\ UNCHANGED <<setup, calling, serving>>

\* One run of the setup script, with the host and the port the user names and
\* the answer typed at the prompt.
RunSetup ==
  /\ setup.pc = "ready"
  /\ \E remote_host \in {"adsb-feeder.local", "192.168.1.50"},
        remote_port \in {8080, 1090},
        answer \in {<<"y">>, <<"Y">>, <<" ", "y", " ">>, <<"n">>, <<>>, <<"y", "e", "s">>},
        writable \in BOOLEAN :
       LET out == main(config_file, remote_host, remote_port, answer, writable)
       IN /\ config_file' = out.file
          /\ setup' = [pc |-> "ended", before |-> config_file,
                       remote_host |-> remote_host, remote_port |-> remote_port,
                       answer |-> answer, writable |-> writable, outcome |-> out.outcome]
  /\ UNCHANGED <<calling, serving>>

\* The script has ended.
SetupExits ==
  /\ setup.pc = "ended"
  /\ setup' = [pc |-> "ready"]
  /\ UNCHANGED <<config_file, calling, serving>>

NextSetup ==
  \/ EditConfigFile
  \/ RunSetup
  \/ SetupExits

SpecSetup == Init /\ [][NextSetup]_vars

----------------------------------------------------------------------------
(* Vocabulary of the properties *)

CallDone(name) == pc = "done" /\ tool = name

\* The aircraft list the feeder serves, and its observer location.
Served ==
  IF aircraft_json.status = "ok" THEN Get(aircraft_json.json, "aircraft", <<>>) ELSE <<>>
ObserverGiven ==
  /\ receiver_json.status = "ok"
  /\ "lat" \in DOMAIN receiver_json.json
  /\ "lon" \in DOMAIN receiver_json.json
Observer == receiver_json.json

DistanceFromObserver(ac) == _calculate_distance(Observer.lat, Observer.lon, ac.lat, ac.lon)
BearingFromObserver(ac) == _calculate_bearing(Observer.lat, Observer.lon, ac.lat, ac.lon)

\* The count and the max_distance the caller asked for.
CountGiven(default) == Get(args, "count", PyInt(default))
CountInRange(count) == IsInt(count) /\ count.int \in 1..50
MaxDistanceAbsentOrNumber ==
  "max_distance" \notin DOMAIN args \/ IsNumber(args.max_distance)
WithinAskedDistance(ac) ==
  "max_distance" \in DOMAIN args => DistanceFromObserver(ac) <= Milli(args.max_distance)

\* The direction asked for, in lower case, when it is one of the eight names.
DirectionAsked == lower(args.direction.str)
DirectionIsValid ==
  /\ "direction" \in DOMAIN args
  /\ IsStr(args.direction)
  /\ DirectionAsked \in DirectionNames

Smaller(m, n) == IF m < n THEN m ELSE n

\* entries (tuples whose first component is the distance and whose last is the
\* aircraft) are the n nearest of the served aircraft with an index in pool,
\* nearest first.
NearestOf(entries, pool, n) ==
  LET Aircraft(e) == e[Len(e)]
      listed == {Aircraft(entries[k]) : k \in 1..Len(entries)}
  IN /\ Len(entries) = Smaller(n, Cardinality(pool))
     /\ Cardinality(listed) = Len(entries)
     /\ listed \subseteq {Served[i] : i \in pool}
     /\ \A k \in 1..Len(entries) :
          entries[k][1] = DistanceFromObserver(Aircraft(entries[k]))
     /\ \A k \in 1..(Len(entries) - 1) : entries[k][1] <= entries[k + 1][1]
     /\ \A i \in pool :
          Served[i] \notin listed =>
            \A k \in 1..Len(entries) : entries[k][1] <= DistanceFromObserver(Served[i])

\* The index of an aircraft in the served list.
IndexOf(ac) == CHOOSE i \in 1..Len(Served) : Served[i] = ac

----------------------------------------------------------------------------
(* C1 *)

ClosestEligible ==
  {i \in 1..Len(Served) : HasPosition(Served[i]) /\ WithinAskedDistance(Served[i])}

\* C1: for every served aircraft list, observer location, count in 1..50 and
\* optional max_distance, get_closest_aircraft returns exactly the
\* min(count, |E|) nearest members of E, nearest first, where E is the set of
\* aircraft that have both lat and lon and lie within max_distance.
C1_ClosestReturnsNearest ==
  ( /\ CallDone("get_closest_aircraft")
    /\ CountInRange(CountGiven(DefaultClosestCount))
    /\ MaxDistanceAbsentOrNumber
    /\ ObserverGiven
    /\ aircraft_json.status = "ok" )
  => NearestOf(result.entries, ClosestEligible, CountGiven(DefaultClosestCount).int)

\* The same with the observer off the equator and off the prime meridian.
ClosestReturnsNearestOffZero ==
  ( /\ CallDone("get_closest_aircraft")
    /\ CountInRange(CountGiven(DefaultClosestCount))
    /\ MaxDistanceAbsentOrNumber
    /\ ObserverGiven
    /\ Observer.lat # PyFloat("0.0") /\ Observer.lon # PyFloat("0.0")
    /\ aircraft_json.status = "ok" )
  => NearestOf(result.entries, ClosestEligible, CountGiven(DefaultClosestCount).int)

----------------------------------------------------------------------------
(* C2 *)

\* The sector of the direction asked for contains the bearing of the aircraft.
InAskedSector(ac) ==
  LET range == _get_direction_range(DirectionAsked)
  IN in_direction(BearingFromObserver(ac), range[1], range[2])

DirectionEligible ==
  {i \in 1..Len(Served) :
     /\ HasPosition(Served[i])
     /\ InAskedSector(Served[i])
     /\ WithinAskedDistance(Served[i])}

\* C2: for every served aircraft list, observer location, valid direction,
\* count in 1..50 and optional max_distance, get_aircraft_by_direction returns
\* the min(count, n) nearest of the n aircraft that have a position, lie in the
\* direction's sector and within max_distance, nearest first, each with its
\* bearing; aircraft outside the sector take no slot of count.
C2_DirectionReturnsNearestInSector ==
  ( /\ CallDone("get_aircraft_by_direction")
    /\ DirectionIsValid
    /\ CountInRange(CountGiven(DefaultDirectionCount))
    /\ MaxDistanceAbsentOrNumber
    /\ ObserverGiven
    /\ aircraft_json.status = "ok" )
  => /\ NearestOf(result.entries, DirectionEligible,
                  CountGiven(DefaultDirectionCount).int)
     /\ \A k \in 1..Len(result.entries) :
          result.entries[k][2] = BearingFromObserver(result.entries[k][3])

\* The same with the observer off the equator and off the prime meridian.
DirectionReturnsNearestInSectorOffZero ==
  ( /\ CallDone("get_aircraft_by_direction")
    /\ DirectionIsValid
    /\ CountInRange(CountGiven(DefaultDirectionCount))
    /\ MaxDistanceAbsentOrNumber
    /\ ObserverGiven
    /\ Observer.lat # PyFloat("0.0") /\ Observer.lon # PyFloat("0.0")
    /\ aircraft_json.status = "ok" )
  => /\ NearestOf(result.entries, DirectionEligible,
                  CountGiven(DefaultDirectionCount).int)
     /\ \A k \in 1..Len(result.entries) :
          result.entries[k][2] = BearingFromObserver(result.entries[k][3])

----------------------------------------------------------------------------
(* C3 *)

SpatialTools == {"get_closest_aircraft", "get_aircraft_by_direction"}

\* The aircraft of an entry of a closest or by-direction result.
EntryAircraft(e) == e[Len(e)]

\* C3: in the results of get_closest_aircraft and get_aircraft_by_direction,
\* two entries at the same distance stand in the order their aircraft have in
\* the served list.
C3_TiesKeepInputOrder ==
  (pc = "done" /\ tool \in SpatialTools /\ result.kind = "Listing")
  => \A k, l \in 1..Len(result.entries) :
       (k < l /\ result.entries[k][1] = result.entries[l][1])
       => IndexOf(EntryAircraft(result.entries[k])) < IndexOf(EntryAircraft(result.entries[l]))

\* A result over three served aircraft that lists two different aircraft at
\* the same distance.
C3_Witness ==
  /\ pc = "done" /\ tool \in SpatialTools /\ result.kind = "Listing"
  /\ Len(Served) = 3
  /\ \E k, l \in 1..Len(result.entries) :
       /\ k < l
       /\ result.entries[k][1] = result.entries[l][1]
       /\ EntryAircraft(result.entries[k]) # EntryAircraft(result.entries[l])

----------------------------------------------------------------------------
(* C4 *)

\* C4: get_closest_aircraft and get_aircraft_by_direction called with a count
\* that is not an integer in 1..50 request nothing from the feeder and return
\* an error with no aircraft entries: the invalid-count error whenever the
\* other arguments are valid. The count is not clamped into the range.
C4_BadCountIsRejected ==
  ( /\ pc = "done" /\ tool \in SpatialTools
    /\ "count" \in DOMAIN args /\ ~CountInRange(args.count) )
  => /\ result.entries = <<>>
     /\ fetched = <<>>
     /\ result.kind \in {"InvalidCount", "InvalidDirection", "Exception"}
     /\ (tool = "get_closest_aircraft" \/ DirectionIsValid) => result.kind = "InvalidCount"

\* count = 0 and count = 51 rejected although the feeder has aircraft to list.
C4_Witness ==
  /\ CallDone("get_closest_aircraft")
  /\ "count" \in DOMAIN args /\ args.count \in {PyInt(0), PyInt(51)}
  /\ result.kind = "InvalidCount"
  /\ receiver_json = QuietReceiver
  /\ \E i \in 1..Len(Served) : HasPosition(Served[i])

----------------------------------------------------------------------------
(* C5 *)

IsBlank(s) == \A i \in 1..Len(s) : IsSpace(s[i])

BadCount == "count" \in DOMAIN args /\ ~CountInRange(args.count)

BadSearchType ==
  /\ "search_type" \in DOMAIN args
  /\ args.search_type \notin {PyStr(callsign), PyStr(hex), PyStr(flight), PyStr(any)}

BadAltitudeRange ==
  /\ "filter_altitude" \in DOMAIN args
  /\ \/ ~IsDict(args.filter_altitude)
     \/ \E k \in DOMAIN args.filter_altitude : ~IsNumber(args.filter_altitude[k])

\* The arguments of the call are malformed or out of range.
Malformed ==
  CASE tool = "get_closest_aircraft" -> BadCount \/ ~MaxDistanceAbsentOrNumber
    [] tool = "get_aircraft_by_direction" ->
         ~DirectionIsValid \/ BadCount \/ ~MaxDistanceAbsentOrNumber
    [] tool = "search_aircraft" ->
         \/ "query" \notin DOMAIN args
         \/ ~IsStr(args.query)
         \/ IsBlank(args.query.str)
         \/ BadSearchType
    [] tool = "get_aircraft_data" ->
         \/ "filter_distance" \in DOMAIN args /\ ~IsNumber(args.filter_distance)
         \/ BadAltitudeRange
    [] OTHER -> FALSE

QueryTools ==
  {"get_closest_aircraft", "get_aircraft_by_direction", "search_aircraft",
   "get_aircraft_data", "get_range_statistics"}

\* C5: a call of one of the five query operations whose arguments are malformed
\* or out of range ends with an error, and no endpoint of the feeder was
\* requested during the call.
C5_MalformedCallFetchesNothing ==
  (pc = "done" /\ tool \in QueryTools /\ Malformed)
  => /\ fetched = <<>>
     /\ result.entries = <<>>
     /\ result.kind \in {"InvalidCount", "InvalidDirection", "EmptyQuery",
                         "InvalidSearchType", "Exception"}

----------------------------------------------------------------------------
(* C6 *)

Listed(ac) == \E k \in 1..Len(result.entries) : EntryAircraft(result.entries[k]) = ac

\* C6: with the observer at latitude 0, longitude 0 and the one aircraft C4 at
\* latitude 0, longitude 10, get_aircraft_by_direction lists the aircraft for
\* east and does not list it for west.
C6_DueEastAircraft ==
  ( /\ CallDone("get_aircraft_by_direction")
    /\ receiver_json = Ok([lat |-> PyFloat("0.0"), lon |-> PyFloat("0.0")])
    /\ aircraft_json = Ok([aircraft |-> <<C4>>])
    /\ DirectionIsValid
    /\ ~BadCount
    /\ "max_distance" \notin DOMAIN args )
  => /\ DirectionAsked = east => (result.kind = "Listing" /\ Listed(C4))
     /\ DirectionAsked = west => ~Listed(C4)

----------------------------------------------------------------------------
(* C7 *)

\* The membership rule as the specification words it.
SectorRule(b, min, max) ==
  IF min <= max THEN min <= b /\ b <= max ELSE b >= min \/ b <= max

\* Bearings every 2.5 degrees around the circle; they include the eight sector
\* limits 22.5, 67.5, ..., 337.5.
BearingSamples == {k * 2500 : k \in 0..143}

\* A by-direction call that succeeded and whose count and max_distance cut
\* nothing off: its result is the sector's whole content.
WholeSectorListed ==
  /\ CallDone("get_aircraft_by_direction")
  /\ DirectionIsValid
  /\ result.kind \in {"Listing", "NoAircraft"}
  /\ "max_distance" \notin DOMAIN args
  /\ ~BadCount
  /\ CountGiven(DefaultDirectionCount).int >= Len(Served)

\* C7: an aircraft is listed for a direction iff its bearing b and the
\* direction's range (min, max) satisfy: min <= b <= max when min <= max, and
\* b >= min or b <= max when min > max (north, 337.5 to 22.5); so 350 is in
\* north and 180 is not.
C7_SectorMembership ==
  /\ WholeSectorListed
     => \A i \in 1..Len(Served) :
          HasPosition(Served[i])
          => ( Listed(Served[i])
               <=> SectorRule(BearingFromObserver(Served[i]),
                              _get_direction_range(DirectionAsked)[1],
                              _get_direction_range(DirectionAsked)[2]) )
  /\ CallDone("_get_direction_range")
     => /\ \A b \in BearingSamples :
             in_direction(b, result.entries[1], result.entries[2])
             <=> SectorRule(b, result.entries[1], result.entries[2])
        /\ args.direction = PyStr(north)
           => /\ in_direction(350000, result.entries[1], result.entries[2])
              /\ ~in_direction(180000, result.entries[1], result.entries[2])

\* A call for north over B2 (bearing 350), which it lists, and C4 (bearing
\* 180), which it does not.
C7_Witness ==
  /\ WholeSectorListed
  /\ DirectionAsked = north
  /\ \E i, j \in 1..Len(Served) : Served[i] = B2 /\ Served[j] = C4
  /\ Listed(B2) /\ ~Listed(C4)
  /\ \E k \in 1..Len(result.entries) : result.entries[k][2] = 350000

----------------------------------------------------------------------------
(* C8 *)

\* The compass point of each direction, in thousandths of a degree.
CompassPoint(name) ==
  CASE name = north -> 0
    [] name = northeast -> 45000
    [] name = east -> 90000
    [] name = southeast -> 135000
    [] name = south -> 180000
    [] name = southwest -> 225000
    [] name = west -> 270000
    [] name = northwest -> 315000

\* The 45-degree range centred on a compass point.
CentredRange(name) ==
  <<(CompassPoint(name) + 360000 - 22500) % 360000, CompassPoint(name) + 22500>>

\* C8: _get_direction_range called with a name that is not one of the eight
\* direction names fails with an error and returns no range; for each of the
\* eight names it returns the 45-degree range centred on the compass point.
C8_UnknownDirectionFails ==
  CallDone("_get_direction_range")
  => IF args.direction.str \in DirectionNames
     THEN result.kind = "Returned" /\ result.entries = CentredRange(args.direction.str)
     ELSE result.kind = "Exception"

\* The half of C8 that is about the eight names.
KnownDirectionRanges ==
  (CallDone("_get_direction_range") /\ args.direction.str \in DirectionNames)
  => result.kind = "Returned" /\ result.entries = CentredRange(args.direction.str)

----------------------------------------------------------------------------
(* C9 *)

\* The directions whose sector contains a bearing.
SectorsOf(b) ==
  {d \in DirectionNames :
     in_direction(b, _get_direction_range(d)[1], _get_direction_range(d)[2])}

SectorLimits == {22500 + 45000 * k : k \in 0..7}

----------------------------------------------------------------------------
(* C10 *)

\* C10: a direction that is none of the eight names, a query that is empty or
\* all whitespace, and a search_type outside callsign, hex, flight, any each
\* end the call with the error that names that problem, with no aircraft
\* entries.
C10_BadNamesAreRejected ==
  /\ ( /\ CallDone("get_aircraft_by_direction")
       /\ "direction" \in DOMAIN args /\ IsStr(args.direction)
       /\ DirectionAsked \notin DirectionNames )
     => result.kind = "InvalidDirection" /\ result.entries = <<>>
  /\ ( /\ CallDone("search_aircraft")
       /\ "query" \in DOMAIN args /\ IsStr(args.query)
       /\ IsBlank(args.query.str) )
     => result.kind = "EmptyQuery" /\ result.entries = <<>>
  /\ ( /\ CallDone("search_aircraft")
       /\ "query" \in DOMAIN args /\ IsStr(args.query)
       /\ ~IsBlank(args.query.str)
       /\ BadSearchType )
     => result.kind = "InvalidSearchType" /\ result.entries = <<>>

\* A search for "a1" with the unknown search_type "tail" over a list that holds
\* an aircraft whose hex is a1.
C10_Witness ==
  /\ CallDone("search_aircraft")
  /\ "query" \in DOMAIN args /\ args.query = PyStr(<<"a", "1">>)
  /\ BadSearchType
  /\ result.kind = "InvalidSearchType"
  /\ \E i \in 1..Len(Served) : Served[i] = A1

----------------------------------------------------------------------------
(* C11 *)

\* A search that passed validation and got the aircraft list.
SearchDone == CallDone("search_aircraft") /\ result.kind \in {"Listing", "NoAircraft"}

\* The query, trimmed and in upper case, and the search type asked for.
QueryAsked == upper(strip(args.query.str))
TypeAsked == Get(args, "search_type", PyStr(any)).str

OnCallsign(ac) ==
  "flight" \in DOMAIN ac /\ Contains(upper(strip(ac.flight.str)), QueryAsked)
OnIdentifier(ac) == "hex" \in DOMAIN ac /\ Contains(upper(ac.hex.str), QueryAsked)

MatchRule(ac) ==
  CASE TypeAsked \in {callsign, flight} -> OnCallsign(ac)
    [] TypeAsked = hex -> OnIdentifier(ac)
    [] TypeAsked = any -> OnCallsign(ac) \/ OnIdentifier(ac)

Found(ac) == \E k \in 1..Len(result.entries) : result.entries[k] = ac

\* C11: for every served list, non-empty query and search type, an aircraft is
\* in the search result iff the trimmed upper-case query is a substring of its
\* trimmed upper-case flight (callsign, flight), of its upper-case hex (hex),
\* or of either (any); an absent field never matches, and a hex search never
\* matches through the flight.
C11_SearchMatches ==
  SearchDone
  => /\ \A i \in 1..Len(Served) : Found(Served[i]) <=> MatchRule(Served[i])
     /\ \A k \in 1..Len(result.entries) :
          \E i \in 1..Len(Served) : Served[i] = result.entries[k]

\* A hex search for "a1" over A1 (hex a1) and E6 (flight a1, no hex) that finds
\* A1 and not E6.
C11_Witness ==
  /\ SearchDone
  /\ TypeAsked = hex
  /\ args.query = PyStr(<<"a", "1">>)
  /\ \E i, j \in 1..Len(Served) : Served[i] = A1 /\ Served[j] = E6
  /\ Found(A1) /\ ~Found(E6)

----------------------------------------------------------------------------
(* C12 *)

CallsignOrFlightAsked ==
  /\ "search_type" \in DOMAIN args
  /\ args.search_type \in {PyStr(callsign), PyStr(flight)}

\* The arguments of the call with the other of the two search types.
WithOtherAlias ==
  [args EXCEPT !.search_type = IF @ = PyStr(callsign) THEN PyStr(flight) ELSE PyStr(callsign)]

\* C12: for every served list and query, a search with search_type callsign and
\* the search with search_type flight return the same sequence of aircraft.
C12_CallsignAndFlightAgree ==
  (CallDone("search_aircraft") /\ CallsignOrFlightAsked)
  => _search_aircraft(WithOtherAlias, aircraft_json).result = result

\* A callsign search for " kl" over a list of three that finds A1 (flight
\* "KLA ") and leaves another aircraft out.
C12_Witness ==
  /\ SearchDone
  /\ TypeAsked = callsign
  /\ args.query = PyStr(<<" ", "k", "l">>)
  /\ Len(Served) = 3
  /\ Found(A1)
  /\ Len(result.entries) < Len(Served)

----------------------------------------------------------------------------
(* C13 *)

\* sub is s with some elements left out.
RECURSIVE IsSubsequence(_, _)
IsSubsequence(sub, s) ==
  IF sub = <<>> THEN TRUE
  ELSE IF s = <<>> THEN FALSE
  ELSE IF Head(sub) = Head(s) THEN IsSubsequence(Tail(sub), Tail(s))
  ELSE IsSubsequence(sub, Tail(s))

\* get_aircraft_data answered with the list it kept.
DataDone == CallDone("get_aircraft_data") /\ result.kind \in {"Summary", "Json"}

\* C13: the aircraft found by search_aircraft and the aircraft kept by
\* get_aircraft_data are a subsequence of the served list: they stand in the
\* served order and each served aircraft appears at most once, also when a
\* search of type any matches an aircraft on both flight and hex.
C13_ResultsAreSubsequences ==
  (SearchDone \/ DataDone)
  => /\ IsSubsequence(result.entries, Served)
     /\ \A k, l \in 1..Len(result.entries) :
          k # l => result.entries[k] # result.entries[l]

\* A search of type any for "a" that finds A1, which matches on its flight
\* "KLA " and on its hex a1, and at least one more aircraft.
C13_Witness ==
  /\ SearchDone
  /\ TypeAsked = any
  /\ args.query = PyStr(<<"a">>)
  /\ OnCallsign(A1) /\ OnIdentifier(A1)
  /\ Found(A1)
  /\ Len(result.entries) >= 2

----------------------------------------------------------------------------
(* C14 *)

\* The messages of the returns at lines 553, 555, 655, 659 and 396, and those
\* of the error returns of the three handlers.
NoAircraftMessages ==
  {"No aircraft found within {} nautical miles of the feeder",
   "No aircraft found near the feeder at this time",
   "No aircraft found to the {} within {} nautical miles of the feeder",
   "No aircraft found to the {} of the feeder at this time",
   "No aircraft found matching '{}' with search type '{}'"}

ErrorMessages ==
  {"Invalid count parameter. Must be an integer between 1 and 50",
   "Error: Receiver location cannot be determined from feeder data",
   "Error getting closest aircraft: {}",
   "Invalid direction '{}'. Valid directions are: {}",
   "Error getting aircraft by direction: {}",
   "Search query cannot be empty",
   "Invalid search_type '{}'. Valid types are: {}",
   "Error searching aircraft: {}"}

\* A well-formed call of one of the three tools, answered by the feeder, that
\* no served aircraft matches.
NothingMatches ==
  /\ pc = "done"
  /\ tool \in SpatialTools \cup {"search_aircraft"}
  /\ ~Malformed
  /\ aircraft_json.status = "ok"
  /\ CASE tool = "get_closest_aircraft" -> ObserverGiven /\ ClosestEligible = {}
       [] tool = "get_aircraft_by_direction" -> ObserverGiven /\ DirectionEligible = {}
       [] tool = "search_aircraft" -> \A i \in 1..Len(Served) : ~MatchRule(Served[i])

EmptySuccess ==
  /\ result.kind = "NoAircraft"
  /\ result.entries = <<>>
  /\ Len(text) = 1
  /\ text[1].text \in NoAircraftMessages
  /\ text[1].text \notin ErrorMessages

\* C14: a well-formed get_closest_aircraft, get_aircraft_by_direction or
\* search_aircraft call that no aircraft matches returns the "no aircraft
\* found" response, which is none of the error responses (validation error,
\* missing receiver location, failed fetch).
C14_NoMatchIsEmptySuccess == NothingMatches => EmptySuccess

\* The same with the observer off the equator and off the prime meridian.
NoMatchIsEmptySuccessOffZero ==
  ( /\ NothingMatches
    /\ tool \in SpatialTools
       => (Observer.lat # PyFloat("0.0") /\ Observer.lon # PyFloat("0.0")) )
  => EmptySuccess

\* Searches and off-zero calls that end in the "no aircraft found" response
\* although the feeder serves aircraft.
NoMatchReached ==
  /\ NothingMatches
  /\ EmptySuccess
  /\ Served # <<>>

----------------------------------------------------------------------------
(* C15 *)

\* The barometric altitude of a record in feet, 0 when it has none.
AltitudeOrZero(ac) == IF "alt_baro" \in DOMAIN ac THEN ac.alt_baro.int ELSE 0

\* get_aircraft_data answered a call that gave an altitude range {min, max}
\* and no other filter.
AltitudeRangeAsked ==
  /\ DataDone
  /\ "filter_distance" \notin DOMAIN args
  /\ "filter_altitude" \in DOMAIN args
  /\ IsDict(args.filter_altitude)
  /\ DOMAIN args.filter_altitude = {"min", "max"}

\* C15: get_aircraft_data with filter_altitude {min, max} keeps an aircraft iff
\* min <= a <= max, where a is its alt_baro, or 0 when it has none; so with
\* {min: 0, max: 10000} an aircraft at 20000 ft is left out and an aircraft
\* without an altitude is kept.
C15_AltitudeRangeFilter ==
  AltitudeRangeAsked
  => /\ \A i \in 1..Len(Served) :
          Found(Served[i])
          <=> /\ args.filter_altitude.min.int <= AltitudeOrZero(Served[i])
              /\ AltitudeOrZero(Served[i]) <= args.filter_altitude.max.int
     /\ IsSubsequence(result.entries, Served)

\* A call with {min: 0, max: 10000} over A1 (20000 ft) and A3 (no altitude)
\* that keeps A3 and leaves A1 out.
C15_Witness ==
  /\ AltitudeRangeAsked
  /\ args.filter_altitude = [min |-> PyInt(0), max |-> PyInt(10000)]
  /\ \E i, j \in 1..Len(Served) : Served[i] = A1 /\ Served[j] = A3
  /\ A1.alt_baro = PyInt(20000) /\ "alt_baro" \notin DOMAIN A3
  /\ Found(A3) /\ ~Found(A1)

----------------------------------------------------------------------------
(* C16 *)

\* The distance the feeder reports for a record, in thousandths of a nautical
\* mile; a record without r_dst is compared as distance 0.
ReportedDistance(ac) == IF "r_dst" \in DOMAIN ac THEN Milli(ac.r_dst) ELSE 0

PassesDistance(ac) ==
  "filter_distance" \in DOMAIN args => ReportedDistance(ac) <= Milli(args.filter_distance)

PassesAltitude(ac) ==
  "filter_altitude" \in DOMAIN args
  => /\ args.filter_altitude.min.int <= AltitudeOrZero(ac)
     /\ AltitudeOrZero(ac) <= args.filter_altitude.max.int

\* get_aircraft_data answered a call whose filters, if given, are a number and
\* a range {min, max}.
FiltersAsked ==
  /\ DataDone
  /\ "filter_distance" \in DOMAIN args => IsNumber(args.filter_distance)
  /\ "filter_altitude" \in DOMAIN args
     => /\ IsDict(args.filter_altitude)
        /\ DOMAIN args.filter_altitude = {"min", "max"}

\* C16: get_aircraft_data with filter_distance keeps exactly the aircraft whose
\* reported distance is at most filter_distance (a distance equal to it
\* passes); with filter_distance and filter_altitude it keeps exactly the
\* aircraft that pass both tests; with neither it returns the whole list.
C16_DistanceAndAltitudeFilters ==
  FiltersAsked
  => /\ \A i \in 1..Len(Served) :
          Found(Served[i]) <=> (PassesDistance(Served[i]) /\ PassesAltitude(Served[i]))
     /\ IsSubsequence(result.entries, Served)
     /\ DOMAIN args \cap {"filter_distance", "filter_altitude"} = {}
        => result.entries = Served

\* A call with filter_distance 60.984 and filter_altitude {min: 0, max: 10000}
\* that keeps B2 (60.984 nm, 5000 ft) and leaves out A1 (32.518 nm, 20000 ft)
\* and C4 (2701.821 nm).
C16_Witness ==
  /\ FiltersAsked
  /\ {"filter_distance", "filter_altitude"} \subseteq DOMAIN args
  /\ args.filter_distance = B2.r_dst
  /\ Served = <<C4, B2, A1>>
  /\ result.entries = <<B2>>

----------------------------------------------------------------------------
(* Reading a text back *)

IsRankLine(l) == l.line = "Rank"

\* The lines of the text that open an entry, in order.
RankLines == SelectSeq(text, IsRankLine)

FirstIndexOf(s, c) == CHOOSE i \in 1..Len(s) : s[i] = c /\ \A j \in 1..(i - 1) : s[j] # c
LastIndexOf(s, c) ==
  CHOOSE i \in 1..Len(s) : s[i] = c /\ \A j \in (i + 1)..Len(s) : s[j] # c

DigitValue(c) == CHOOSE d \in 0..9 : Digit(d) = c

RECURSIVE ParseNat(_)
ParseNat(s) ==
  IF s = <<>> THEN 0 ELSE 10 * ParseNat(SubSeq(s, 1, Len(s) - 1)) + DigitValue(s[Len(s)])

\* The rank of an entry line: the number in front of its first full stop.
ParsedRank(chars) == ParseNat(lstrip(SubSeq(chars, 1, FirstIndexOf(chars, ".") - 1)))

\* The identifier of an entry line: what its last pair of parentheses holds.
ParsedIdentifier(chars) == SubSeq(chars, LastIndexOf(chars, "(") + 1, Len(chars) - 1)

\* The identifier the views show for a record: its hex, "Unknown" without one.
IdentifierOf(ac) == IF "hex" \in DOMAIN ac THEN ac.hex.str ELSE Unknown

----------------------------------------------------------------------------
(* C17 *)

SummaryDone == CallDone("get_aircraft_data") /\ result.kind = "Summary"

SpatialListing == pc = "done" /\ tool \in SpatialTools /\ result.kind = "Listing"

IsMoreLine(l) == l.line = "More"

\* C17: the summary view of a list of n aircraft shows the first min(n, 10) of
\* them in list order and ends with a line giving the number n - 10 of
\* aircraft not shown iff n > 10; the closest and by-direction views show every
\* entry of their result, which has at most count entries and may have more
\* than 10.
C17_SummaryIsCappedAtTen ==
  /\ SummaryDone
     => LET n == Len(result.entries) IN
        /\ Len(RankLines) = Smaller(n, 10)
        /\ \A i \in 1..Len(RankLines) :
             ParsedIdentifier(RankLines[i].text) = IdentifierOf(result.entries[i])
        /\ n > 10 <=> IsMoreLine(text[Len(text)])
        /\ n > 10 => text[Len(text)].n = n - 10
        /\ \A k \in 1..(Len(text) - 1) : ~IsMoreLine(text[k])
  /\ SpatialListing
     => /\ Len(RankLines) = Len(result.entries)
        /\ Len(result.entries) <= CountGiven(IF tool = "get_closest_aircraft"
                                             THEN DefaultClosestCount
                                             ELSE DefaultDirectionCount).int
        /\ \A i \in 1..Len(RankLines) :
             ParsedIdentifier(RankLines[i].text)
               = IdentifierOf(EntryAircraft(result.entries[i]))
        /\ \A k \in 1..Len(text) : ~IsMoreLine(text[k])

\* A summary of twelve aircraft: ten are shown and the last line counts two
\* more.
C17_Witness ==
  /\ SummaryDone
  /\ Len(result.entries) = 12
  /\ Len(RankLines) = 10
  /\ IsMoreLine(text[Len(text)]) /\ text[Len(text)].n = 2

\* A closest view that shows twelve entries.
TwelveClosestShown ==
  /\ SpatialListing
  /\ tool = "get_closest_aircraft"
  /\ Len(RankLines) = 12

----------------------------------------------------------------------------
(* C18 *)

\* The (rank, identifier) pairs read back from the text, in order.
PairsReadBack ==
  [i \in 1..Len(RankLines) |->
     <<ParsedRank(RankLines[i].text), ParsedIdentifier(RankLines[i].text)>>]

\* C18: in the text of a closest or by-direction result of n entries the
\* entries carry the ranks 1, 2, ..., n in that order and the i-th entry shows
\* the identifier of the i-th aircraft of the result: the (rank, identifier)
\* pairs read back from the text give the identifiers of the result in order.
C18_RanksAndIdentifiersReadBack ==
  SpatialListing
  => PairsReadBack
       = [i \in 1..Len(result.entries) |->
            <<i, IdentifierOf(EntryAircraft(result.entries[i]))>>]

\* A closest view of twelve entries, nearest first and not in served order,
\* whose last entry reads back as rank 12.
C18_Witness ==
  /\ SpatialListing
  /\ Len(result.entries) = 12
  /\ EntryAircraft(result.entries[1]) # Served[1]
  /\ PairsReadBack[12][1] = 12
  /\ PairsReadBack[1] = <<1, EntryAircraft(result.entries[1]).hex.str>>

----------------------------------------------------------------------------
(* C19 *)

\* The position in the text of the line that opens the i-th entry, and the
\* lines of that entry.
RankAt(i) ==
  CHOOSE k \in 1..Len(text) :
    IsRankLine(text[k]) /\ Cardinality({j \in 1..k : IsRankLine(text[j])}) = i
EntryLines(i) ==
  SubSeq(text, RankAt(i), IF i < Len(RankLines) THEN RankAt(i + 1) - 1 ELSE Len(text))

\* The lines of the i-th entry that carry a label.
Labelled(i, label) ==
  LET HasLabel(l) == l.line = label IN SelectSeq(EntryLines(i), HasLabel)

\* The callsign of an entry line: what stands between the rank and the
\* identifier, without the padding.
ParsedCallsign(chars) ==
  rstrip(SubSeq(chars, FirstIndexOf(chars, ".") + 2, LastIndexOf(chars, "(") - 2))

\* What the views are to show for a field and for the callsign of a record.
FieldOrUnknown(ac, field) == IF field \in DOMAIN ac THEN ac[field] ELSE PyStr(Unknown)
CallsignOrUnknown(ac) ==
  IF "flight" \notin DOMAIN ac \/ IsBlank(ac.flight.str) THEN Unknown
  ELSE strip(ac.flight.str)

\* C19: every entry of the closest and by-direction texts has its callsign,
\* its altitude line, its speed line and its track line; a field the aircraft
\* lacks is shown as "Unknown" and its line is not left out, and a flight that
\* is absent, empty or all whitespace is shown as "Unknown".
C19_AbsentFieldsShownAsUnknown ==
  SpatialListing
  => \A i \in 1..Len(result.entries) :
       LET ac == EntryAircraft(result.entries[i]) IN
       /\ ParsedCallsign(RankLines[i].text) = CallsignOrUnknown(ac)
       /\ Labelled(i, "Altitude")
            = <<[line |-> "Altitude", value |-> FieldOrUnknown(ac, "alt_baro")]>>
       /\ Labelled(i, "Speed") = <<[line |-> "Speed", value |-> FieldOrUnknown(ac, "gs")]>>
       /\ Labelled(i, "Track") = <<[line |-> "Track", value |-> FieldOrUnknown(ac, "track")]>>

\* A view that lists B2 (no flight; altitude, speed and track present) after
\* A3 (flight all whitespace; no altitude, speed or track): A3's entry shows
\* "Unknown" four times, B2's shows its speed.
C19_Witness ==
  /\ SpatialListing
  /\ Len(result.entries) >= 2
  /\ EntryAircraft(result.entries[1]) = A3
  /\ EntryAircraft(result.entries[2]) = B2
  /\ ParsedCallsign(RankLines[1].text) = Unknown
  /\ Labelled(1, "Speed") = <<[line |-> "Speed", value |-> PyStr(Unknown)]>>
  /\ Labelled(1, "Altitude") = <<[line |-> "Altitude", value |-> PyStr(Unknown)]>>
  /\ Labelled(1, "Track") = <<[line |-> "Track", value |-> PyStr(Unknown)]>>
  /\ Labelled(2, "Speed") = <<[line |-> "Speed", value |-> B2.gs]>>

----------------------------------------------------------------------------
(* C20 *)

\* get_range_statistics was called and the feeder answered both requests.
RangeAnswered ==
  /\ CallDone("get_range_statistics")
  /\ receiver_json.status = "ok"
  /\ stats_json.status = "ok"

HasMaxDistance(bucket) ==
  /\ bucket \in DOMAIN stats_json.json
  /\ "max_distance" \in DOMAIN stats_json.json[bucket]

\* The positions in the text of the lines with a label.
PositionsOf(label) == {k \in 1..Len(text) : text[k].line = label}

\* C20: get_range_statistics prints the "Max Range" line iff stats.json has a
\* total bucket with max_distance, and the "Last 15 Minutes Max Range" line
\* iff it has a last15min bucket with max_distance; each line is decided on
\* its own, the total line stands before the last-15-minutes line, and a
\* missing bucket or field is no error.
C20_RangeLines ==
  RangeAnswered
  => /\ result.kind = "RangeStatistics"
     /\ Cardinality(PositionsOf("Max Range")) = IF HasMaxDistance("total") THEN 1 ELSE 0
     /\ Cardinality(PositionsOf("Last 15 Minutes Max Range"))
          = IF HasMaxDistance("last15min") THEN 1 ELSE 0
     /\ \A k \in PositionsOf("Max Range") :
          /\ text[k].meters = stats_json.json.total.max_distance
          /\ \A l \in PositionsOf("Last 15 Minutes Max Range") : k < l
     /\ \A l \in PositionsOf("Last 15 Minutes Max Range") :
          text[l].meters = stats_json.json.last15min.max_distance

\* stats.json with a last15min bucket that has max_distance and no total
\* bucket: the last-15-minutes line is printed alone.
C20_Witness ==
  /\ RangeAnswered
  /\ HasMaxDistance("last15min") /\ "total" \notin DOMAIN stats_json.json
  /\ PositionsOf("Last 15 Minutes Max Range") # {}
  /\ PositionsOf("Max Range") = {}

\* stats.json with max_distance in both buckets: both lines, total first.
BothRangeLinesReached ==
  /\ RangeAnswered
  /\ HasMaxDistance("total") /\ HasMaxDistance("last15min")
  /\ \E k \in PositionsOf("Max Range"), l \in PositionsOf("Last 15 Minutes Max Range") :
       k < l

----------------------------------------------------------------------------
(* C21 *)

\* The endpoint of the feeder behind a request, as it answered during the call.
EndpointOf(request) ==
  CASE request = "receiver.json" -> receiver_json
    [] request = "aircraft.json" -> aircraft_json
    [] request = "stats.json" -> stats_json

ErrorTexts ==
  {"Error getting closest aircraft: {}", "Error getting aircraft by direction: {}",
   "Error searching aircraft: {}", "Error fetching aircraft data: {}",
   "Error fetching stats: {}", "Error fetching range statistics: {}"}

\* The receiver metadata cannot be used: the request failed or a coordinate is
\* missing.
ObserverUnusable == ~ObserverGiven

\* C21: within one call every endpoint is requested at most once; a request
\* that fails is the last request of the call, which lists no aircraft and
\* ends with a reported error; get_closest_aircraft and
\* get_aircraft_by_direction request receiver.json before aircraft.json and do
\* not request aircraft.json when the receiver request failed or gave no
\* usable location.
C21_FailedFetchEndsTheCall ==
  (pc = "done" /\ tool \in ToolNames)
  => /\ \A k, l \in 1..Len(fetched) : k # l => fetched[k] # fetched[l]
     /\ \A k \in 1..Len(fetched) :
          EndpointOf(fetched[k]).status # "ok"
          => /\ k = Len(fetched)
             /\ result.kind = "Exception"
             /\ result.entries = <<>>
             /\ Len(text) = 1 /\ text[1].text \in ErrorTexts
     /\ tool \in SpatialTools
        => /\ fetched \in {<<>>, <<"receiver.json">>, <<"receiver.json", "aircraft.json">>}
           /\ ObserverUnusable => fetched \in {<<>>, <<"receiver.json">>}

\* The receiver request of a get_closest_aircraft call fails while the feeder
\* has three aircraft to serve: the call ends with the error and aircraft.json
\* is not requested.
C21_Witness ==
  /\ CallDone("get_closest_aircraft")
  /\ receiver_json = Failing
  /\ Len(Served) = 3
  /\ fetched = <<"receiver.json">>
  /\ result.kind = "Exception"

\* The aircraft request fails after the receiver request succeeded.
SnapshotFetchFails ==
  /\ pc = "done" /\ tool \in SpatialTools
  /\ aircraft_json = Failing
  /\ fetched = <<"receiver.json", "aircraft.json">>
  /\ result.kind = "Exception"

----------------------------------------------------------------------------
(* Calls in flight, read back *)

Returned(q) == in_flight[q].state = "returned"
Running(q) == in_flight[q].state = "running"

\* The response the feeder gave to a call's own request of an endpoint; an
\* endpoint the call never requested has none.
Given(c, e) == IF c.delivered[e] = NotFetched THEN Failing ELSE c.delivered[e]

\* The call handled alone, from request to response, on the responses the
\* feeder gave to its own requests.
RunAlone(c) ==
  handle_call_tool(c.name, c.args, Given(c, "receiver.json"), Given(c, "aircraft.json"),
                   Given(c, "stats.json"))
TextAlone(c) ==
  Text(c.name, c.args, c.delivered["receiver.json"], c.delivered["aircraft.json"],
       c.delivered["stats.json"], RunAlone(c).result)

\* C22: whatever calls were answered before, and however they ended, a call
\* that has returned has the result and the text of the same call handled alone
\* on the responses to its own requests, and it has requested from the feeder
\* every endpoint the call handled alone requests, in that order: the observer
\* and the snapshot are fetched again, nothing of an earlier call is reused.
C22_OutcomeDependsOnOwnFetchesOnly ==
  \A q \in Slots :
    Returned(q)
    => LET c == in_flight[q]
           alone == RunAlone(c)
       IN /\ c.result = alone.result
          /\ c.text = TextAlone(c)
          /\ c.requested =
               [k \in 1..Len(alone.fetched) |-> <<__init__.api_base, alone.fetched[k]>>]

\* A call returns a listing computed from its own observer and snapshot after
\* earlier calls ended in a validation error, in a fetch failure and in an
\* answer.
C22_Witness ==
  /\ earlier = {"validation error", "fetch failure", "answered"}
  /\ \E q \in Slots :
       /\ Returned(q)
       /\ in_flight[q].name = "get_closest_aircraft"
       /\ in_flight[q].result.kind = "Listing"
       /\ in_flight[q].requested =
            << <<__init__.api_base, "receiver.json">>, <<__init__.api_base, "aircraft.json">> >>
       /\ in_flight[q].delivered["aircraft.json"] = Ok([aircraft |-> <<B2>>])

\* C23: while several calls are in flight, each holds exactly the documents
\* returned to its own requests, a call that has returned has the result of the
\* same call handled alone on those documents, and the attributes of the server,
\* the only state the calls share, are those the constructor set.
C23_CallsInFlightDoNotInterfere ==
  /\ self = __init__
  /\ \A q \in Slots :
       in_flight[q] # Idle
       => LET c == in_flight[q]
          IN /\ c.got = c.delivered
             /\ Returned(q) => c.result = RunAlone(c).result

\* Two calls of the same tool in flight at once have returned listings computed
\* from different snapshots, each from the one returned to its own request.
C23_Witness ==
  \E q, o \in Slots :
    /\ q # o
    /\ Returned(q) /\ Returned(o)
    /\ in_flight[q].name = "get_closest_aircraft"
    /\ in_flight[o].name = "get_closest_aircraft"
    /\ in_flight[q].result.kind = "Listing"
    /\ in_flight[o].result.kind = "Listing"
    /\ Len(in_flight[q].result.entries) = 2
    /\ Len(in_flight[o].result.entries) = 1

\* One call is suspended on its snapshot request, its observer already
\* returned, while another has failed on the same request and returned.
SuspendedBesideFailure ==
  \E q, o \in Slots :
    /\ Running(q)
    /\ in_flight[q].got["receiver.json"] # NotFetched
    /\ Awaited(in_flight[q].name, in_flight[q].args, in_flight[q].got) = "aircraft.json"
    /\ Returned(o)
    /\ in_flight[o].delivered["aircraft.json"] = Failing
    /\ in_flight[o].result.kind = "Exception"

----------------------------------------------------------------------------
(* Records with one coordinate *)

OneCoordinate(ac) == ("lat" \in DOMAIN ac) # ("lon" \in DOMAIN ac)

\* The record without its coordinates, and the served document with every
\* one-coordinate record replaced by the record without coordinates.
WithoutCoordinates(ac) == [k \in DOMAIN ac \ {"lat", "lon"} |-> ac[k]]
WithNeither(list) ==
  [i \in 1..Len(list) |->
     IF OneCoordinate(list[i]) THEN WithoutCoordinates(list[i]) ELSE list[i]]
ServedWithNeither ==
  IF aircraft_json.status = "ok" /\ "aircraft" \in DOMAIN aircraft_json.json
  THEN Ok([aircraft_json.json EXCEPT !.aircraft = WithNeither(@)])
  ELSE aircraft_json

PositionLine(t) == t[CHOOSE k \in 1..Len(t) : t[k].line = "With Position"]

\* C24: a call of get_closest_aircraft or get_aircraft_by_direction lists no
\* record that has only a latitude or only a longitude, and it has the kind of
\* result, the entries and the text of the same call on the served list with
\* each such record stripped of its coordinate, so such a record raises no
\* error; the summary of get_aircraft_data counts as having a position exactly
\* the shown records with both coordinates, the count it gives with each
\* one-coordinate record stripped.
C24_OneCoordinateIsNoPosition ==
  /\ (pc = "done" /\ tool \in SpatialTools)
     => /\ \A k \in 1..Len(result.entries) :
             ~OneCoordinate(EntryAircraft(result.entries[k]))
        /\ result =
             handle_call_tool(tool, args, receiver_json, ServedWithNeither, stats_json).result
        /\ text = Text(tool, args, receiver_json, ServedWithNeither, stats_json, result)
  /\ SummaryDone
     => /\ PositionLine(text).n =
             Cardinality({k \in 1..Len(result.entries) : HasPosition(result.entries[k])})
        /\ PositionLine(text) =
             PositionLine(Text(tool, args, receiver_json, ServedWithNeither, stats_json,
                               handle_call_tool(tool, args, receiver_json, ServedWithNeither,
                                                stats_json).result))

\* The closest view lists the one aircraft with both coordinates out of a
\* served list that also has a latitude-only and a longitude-only record.
C24_Witness ==
  /\ CallDone("get_closest_aircraft")
  /\ Served = <<D5, A1, C7>>
  /\ result.kind = "Listing"
  /\ Len(result.entries) = 1
  /\ EntryAircraft(result.entries[1]) = A1

\* The summary of a latitude-only, a longitude-only and a positioned record
\* counts one aircraft with a position out of three.
OneOfThreeHasPosition ==
  /\ SummaryDone
  /\ Served = <<D5, C7, B2>>
  /\ Len(result.entries) = 3
  /\ PositionLine(text).n = 1

\* The by-direction view of one-coordinate records alone finds no aircraft and
\* reports no error.
OneCoordinateOnlyFindsNothing ==
  /\ CallDone("get_aircraft_by_direction")
  /\ Served = <<C7, D5>>
  /\ ObserverGiven
  /\ result.kind = "NoAircraft"

----------------------------------------------------------------------------
(* The two geometric functions on their own *)

DistanceDone == CallDone("_calculate_distance")
BearingDone == CallDone("_calculate_bearing")

\* Two distances differ by at most a millionth of a nautical mile.
Billion == 1000 * 1000 * 1000
WithinAMillionth(d1, d2) ==
  \/ d1.whole = d2.whole /\ d1.billionths - d2.billionths \in -1000..1000
  \/ d1.whole = d2.whole + 1 /\ d1.billionths + Billion - d2.billionths <= 1000
  \/ d2.whole = d1.whole + 1 /\ d2.billionths + Billion - d1.billionths <= 1000

\* C25: the distance from p1 to p2 is within a millionth of a nautical mile of
\* the distance from p2 to p1, and the distance from a point to itself is 0.
C25_DistanceIsSymmetric ==
  DistanceDone
  => LET p1 == args.p1
         p2 == args.p2
     IN /\ WithinAMillionth(result.entries[2],
                            _calculate_distance_1e9(p2.lat, p2.lon, p1.lat, p1.lon))
        /\ p1 = p2 => /\ result.entries[1] = 0
                      /\ result.entries[2] = [whole |-> 0, billionths |-> 0]

\* The distance between two antipodes, half the circumference, has been
\* computed.
C25_Witness ==
  /\ DistanceDone
  /\ args.p1 = [lat |-> PyFloat("-45.0"), lon |-> PyFloat("-170.0")]
  /\ args.p2 = [lat |-> PyFloat("45.0"), lon |-> PyFloat("10.0")]
  /\ result.entries[2].whole = 10807

\* The distance from the north pole to itself has been computed.
PoleToItself ==
  /\ DistanceDone
  /\ args.p1 = [lat |-> PyFloat("90.0"), lon |-> PyFloat("0.0")]
  /\ args.p2 = args.p1
  /\ result.entries[1] = 0

\* The raw angle of the call that has run.
RawOfCall == RawBearing(args.p1.lat, args.p1.lon, args.p2.lat, args.p2.lon)

\* C26, as stated: the bearing is at least 0 and less than 360, it is the raw
\* angle plus 360 reduced modulo 360, the raw angle is more than -180 and at
\* most 180, and the bearing from a point to itself is 0.
C26_BearingRangeRawOpenAtMinus180 ==
  BearingDone
  => /\ 0 <= result.entries[1] /\ result.entries[1] < 360000
     /\ result.entries[1] = (RawOfCall + 360000) % 360000
     /\ -180000 < RawOfCall /\ RawOfCall <= 180000
     /\ args.p1 = args.p2 => result.entries[1] = 0

\* C26, amended: the same with the raw angle at least -180 and at most 180;
\* atan2 returns -180 when x is negative and y is negative and negligible
\* against it, and the bearing is then 180.
C26_BearingRange ==
  BearingDone
  => /\ 0 <= result.entries[1] /\ result.entries[1] < 360000
     /\ result.entries[1] = (RawOfCall + 360000) % 360000
     /\ -180000 <= RawOfCall /\ RawOfCall <= 180000
     /\ RawOfCall = -180000 => result.entries[1] = 180000
     /\ args.p1 = args.p2 => result.entries[1] = 0

\* A negative raw angle has been normalised into [180, 360).
C26_Witness ==
  /\ BearingDone
  /\ RawOfCall = -90000
  /\ result.entries[1] = 270000

\* The raw angle -180 has been normalised to 180.
RawMinus180Reached ==
  /\ BearingDone
  /\ RawOfCall = -180000
  /\ result.entries[1] = 180000

----------------------------------------------------------------------------
(* The receiver location error *)

\* A spatial call whose arguments passed validation and whose request of the
\* receiver metadata succeeded.
ObserverFetched ==
  /\ pc = "done" /\ tool \in SpatialTools
  /\ fetched # <<>>
  /\ receiver_json.status = "ok"

LocationError == result.kind = "NoReceiverLocation"

\* C27: a closest or by-direction call that has fetched the receiver metadata
\* ends with the receiver location error iff the metadata lacks a latitude or
\* a longitude; with both present, a 0 included, it goes on to request the
\* snapshot and does not end with that error.
C27_LocationErrorIffCoordinateAbsent ==
  ObserverFetched
  => /\ LocationError <=> ~ObserverGiven
     /\ ObserverGiven => fetched = <<"receiver.json", "aircraft.json">>

\* The same for metadata whose coordinates are absent or not 0: the error iff a
\* coordinate is absent.
LocationErrorIffCoordinateAbsentOffZero ==
  ( /\ ObserverFetched
    /\ \A k \in {"lat", "lon"} \cap DOMAIN receiver_json.json :
         Truthy(receiver_json.json[k]) )
  => /\ LocationError <=> ~ObserverGiven
     /\ ObserverGiven => fetched = <<"receiver.json", "aircraft.json">>

\* An observer on the equator is given both coordinates and the call ends with
\* the receiver location error, the snapshot never requested.
EquatorIsRefused ==
  /\ ObserverFetched
  /\ ObserverGiven
  /\ Observer.lat = PyFloat("0.0") /\ Observer.lon = PyFloat("10.0")
  /\ LocationError
  /\ fetched = <<"receiver.json">>

----------------------------------------------------------------------------
(* The dispatch *)

\* The handler handle_call_tool dispatches each listed name to, run on the
\* call's arguments and on what the feeder serves.
HandlerOf(name) ==
  CASE name = "get_aircraft_data" -> _get_aircraft_data(args, aircraft_json)
    [] name = "get_receiver_stats" -> _get_receiver_stats(args, stats_json)
    [] name = "search_aircraft" -> _search_aircraft(args, aircraft_json)
    [] name = "get_range_statistics" ->
         _get_range_statistics(args, receiver_json, stats_json)
    [] name = "get_closest_aircraft" ->
         _get_closest_aircraft(args, receiver_json, aircraft_json)
    [] name = "get_aircraft_by_direction" ->
         _get_aircraft_by_direction(args, receiver_json, aircraft_json)

ToolCalled == pc = "done" /\ tool \notin {"_get_direction_range", "_calculate_distance",
                                          "_calculate_bearing"}

\* The state the server is in before its first call.
AsBeforeTheFirstCall ==
  /\ tool = "" /\ args = <<>> /\ fetched = <<>> /\ result = NoResult /\ text = <<>>
  /\ self = __init__

\* C28: every call of handle_call_tool, whatever the name and the arguments,
\* has returned a text of at least one line; a call of one of the six listed
\* names has the result and the requests of that name's handler; a call of any
\* other name has requested nothing and returned the one line "Error: Unknown
\* tool: <name>"; and once a response is delivered, an error or not, the
\* server is as before its first call and takes the next call.
C28_EveryCallIsAnswered ==
  /\ ToolCalled
     => /\ text # <<>>
        /\ result.kind # "None"
        /\ tool \in ToolNames
           => /\ result = HandlerOf(tool).result
              /\ fetched = HandlerOf(tool).fetched
              /\ result.kind # "UnknownTool"
        /\ tool \notin ToolNames
           => /\ result = [kind |-> "UnknownTool", exc |-> "ValueError", entries |-> <<>>]
              /\ fetched = <<>>
              /\ text = Message("Error: Unknown tool: {}", <<[tool |-> tool]>>)
  /\ pc = "idle"
     => /\ AsBeforeTheFirstCall
        /\ ENABLED GetClosestAircraft
        /\ ENABLED UnknownTool

\* A call of a name that is not listed has been answered with the unknown tool
\* error.
C28_Witness ==
  /\ CallDone("get_weather")
  /\ result.kind = "UnknownTool"
  /\ text = Message("Error: Unknown tool: {}", <<[tool |-> "get_weather"]>>)

\* A call with arguments of the wrong type has been answered with an error
\* text.
WrongTypeIsAnswered ==
  /\ CallDone("get_aircraft_data")
  /\ "filter_distance" \in DOMAIN args /\ IsStr(args.filter_distance)
  /\ result.kind = "Exception"
  /\ text # <<>>

----------------------------------------------------------------------------
(* Absent distances and one-sided altitude ranges *)

\* get_aircraft_data answered a call whose filter_distance, if given, is a
\* number and whose filter_altitude, if given, is a range with any of min and
\* max.
RangeWithAnyBounds ==
  /\ DataDone
  /\ "filter_distance" \in DOMAIN args => IsNumber(args.filter_distance)
  /\ "filter_altitude" \in DOMAIN args => IsDict(args.filter_altitude)

OnlyMinGiven ==
  "filter_altitude" \in DOMAIN args /\ DOMAIN args.filter_altitude = {"min"}
OnlyMaxGiven ==
  "filter_altitude" \in DOMAIN args /\ DOMAIN args.filter_altitude = {"max"}

\* The bounds of the altitude test, in feet: the bound given, else 0 below and
\* 50000 above.
LowerBound ==
  IF "min" \in DOMAIN args.filter_altitude THEN args.filter_altitude.min.int ELSE 0
UpperBound ==
  IF "max" \in DOMAIN args.filter_altitude THEN args.filter_altitude.max.int ELSE 50000

InAltitudeRange(ac) ==
  "filter_altitude" \in DOMAIN args
  => LowerBound <= AltitudeOrZero(ac) /\ AltitudeOrZero(ac) <= UpperBound

\* C29: in get_aircraft_data a record without r_dst that passes the altitude
\* test is kept by every filter_distance of 0 or more; a filter_altitude that
\* gives only one bound keeps exactly the records whose altitude, 0 when
\* absent, is between the bound given and 0 below or 50000 above; so with only
\* min given no record above 50000 ft is kept.
C29_AbsentDistanceAndOneSidedRange ==
  RangeWithAnyBounds
  => /\ \A i \in 1..Len(Served) :
          ( /\ "filter_distance" \in DOMAIN args
            /\ Milli(args.filter_distance) >= 0
            /\ "r_dst" \notin DOMAIN Served[i]
            /\ InAltitudeRange(Served[i]) )
          => Found(Served[i])
     /\ (OnlyMinGiven \/ OnlyMaxGiven)
        => \A i \in 1..Len(Served) :
             Found(Served[i]) <=> (PassesDistance(Served[i]) /\ InAltitudeRange(Served[i]))
     /\ OnlyMinGiven
        => \A k \in 1..Len(result.entries) : AltitudeOrZero(result.entries[k]) <= 50000

\* With filter_altitude {min: 1000}, C4 at 60000 ft is left out and A1 at
\* 20000 ft is kept.
C29_Witness ==
  /\ RangeWithAnyBounds
  /\ OnlyMinGiven
  /\ args.filter_altitude.min = PyInt(1000)
  /\ "filter_distance" \notin DOMAIN args
  /\ Served = <<C4, A1>>
  /\ C4.alt_baro = PyInt(60000)
  /\ result.entries = <<A1>>

\* With filter_distance 0, A3, which has no r_dst, is kept and A1, 32.518 nm
\* away, is left out.
AbsentDistancePassesZero ==
  /\ RangeWithAnyBounds
  /\ "filter_distance" \in DOMAIN args /\ args.filter_distance = PyInt(0)
  /\ "filter_altitude" \notin DOMAIN args
  /\ Served = <<A1, A3>>
  /\ "r_dst" \notin DOMAIN A3
  /\ result.entries = <<A3>>

\* With filter_altitude {max: 10000}, D5 at 0 ft is kept and A1 is left out.
OnlyMaxKeepsGroundLevel ==
  /\ RangeWithAnyBounds
  /\ OnlyMaxGiven
  /\ Served = <<A1, D5>>
  /\ D5.alt_baro = PyInt(0)
  /\ result.entries = <<D5>>

----------------------------------------------------------------------------
(* The setup script and the existing configuration *)

\* The script has run on a file that existed and parsed as JSON.
RanOnExistingJson ==
  /\ setup.pc = "ended"
  /\ setup.before.exists
  /\ setup.before.parses

\* The user answered y at the prompt, in either case, spaces around it or not.
AnsweredY == setup.answer \in {<<"y">>, <<"Y">>, <<" ", "y", " ">>}

\* The existing document is an object and its mcpServers, if it has one, is an
\* object: it has top-level keys and mcpServers entries.
HasKeysAndEntries ==
  /\ IsObject(setup.before.json)
  /\ "mcpServers" \in DOMAIN setup.before.json
     => IsObject(setup.before.json.mcpServers)

ExistingServers ==
  IF "mcpServers" \in DOMAIN setup.before.json
  THEN DOMAIN setup.before.json.mcpServers
  ELSE {}

NewReadsb == create_remote_config(setup.remote_host, setup.remote_port).mcpServers.readsb

\* C30: after a run of the setup script on a configuration file that existed and
\* parsed as JSON, the file is as before unless the user answered y; when the
\* user answered y and the file was written, every top-level key other than
\* mcpServers and every mcpServers entry other than readsb is there with the
\* value it had, no other key or entry has been added, and the readsb entry is
\* the new one; when it was not written, it is as before.
C30_SetupKeepsTheRestOfTheConfiguration ==
  RanOnExistingJson
  => LET old == setup.before.json
     IN /\ ~AnsweredY => config_file = setup.before
        /\ (AnsweredY /\ HasKeysAndEntries /\ setup.writable)
           => /\ config_file.exists /\ config_file.parses
              /\ DOMAIN config_file.json = DOMAIN old \cup {"mcpServers"}
              /\ \A k \in DOMAIN old \ {"mcpServers"} : config_file.json[k] = old[k]
              /\ DOMAIN config_file.json.mcpServers = ExistingServers \cup {"readsb"}
              /\ \A e \in ExistingServers \ {"readsb"} :
                   config_file.json.mcpServers[e] = old.mcpServers[e]
              /\ config_file.json.mcpServers.readsb = NewReadsb
        /\ (AnsweredY /\ ~(HasKeysAndEntries /\ setup.writable))
           => config_file = setup.before

\* The user answered y over a file with a theme, an old readsb entry and
\* another server: the theme and the other server are kept and the readsb
\* entry is the new one.
C30_Witness ==
  /\ RanOnExistingJson
  /\ AnsweredY
  /\ setup.before.json =
       [theme |-> JsonStr("dark"), mcpServers |-> [readsb |-> OldReadsb, filesystem |-> OtherServer]]
  /\ config_file.json.theme = JsonStr("dark")
  /\ config_file.json.mcpServers.filesystem = OtherServer
  /\ config_file.json.mcpServers.readsb = NewReadsb
  /\ NewReadsb # OldReadsb

\* The user answered n over the same file, which is as before.
DeclinedLeavesTheFile ==
  /\ RanOnExistingJson
  /\ setup.answer = <<"n">>
  /\ setup.outcome = "Configuration not updated."
  /\ setup.before.json =
       [theme |-> JsonStr("dark"), mcpServers |-> [readsb |-> OldReadsb, filesystem |-> OtherServer]]
  /\ config_file = setup.before

\* The user answered y over a file whose mcpServers is null: the script ended
\* in a TypeError and the file is as before.
NullServersEndInTypeError ==
  /\ RanOnExistingJson
  /\ AnsweredY
  /\ setup.before.json = [mcpServers |-> [none |-> TRUE]]
  /\ setup.outcome = "TypeError"
  /\ config_file = setup.before

====
